---- MODULE Spec2Model ----
(***************************************************************************)
(* Model of jetstream's FeatureCustomizedStreamBlock (src/jetstream/       *)
(* blocks.py): a stream block whose child blocks are filtered, on every    *)
(* access, by the features enabled for the Site of the current request,    *)
(* and sorted by group rank and label; of the layout blocks built on it;  *)
(* of the blocks that choose a template by style; and of IFrameBlock.clean *)
(* (with custom_bleach of templatetags/jetstream_tags.py).                 *)
(*                                                                         *)
(* Python values are modelled as follows.                                  *)
(*   str used as a key / group / class name : a TLA+ string                *)
(*   str that is compared with < (a label)  : a sequence of characters     *)
(*   OrderedDict                            : a sequence of [key, block]   *)
(*   list                                   : a sequence                   *)
(*   None                                   : the string "None"            *)
(*   the outcome of a call                  : a record, kind "return" or   *)
(*                                            kind "raise"                 *)
(***************************************************************************)
EXTENDS Integers, Sequences, FiniteSets, TLC

VARIABLES
    _child_blocks,  \* self._child_blocks: the container's base child set
    constructed,    \* history: the value __init__ gave to self._child_blocks
    installed,      \* whether the optional 'features' package is importable
    request,        \* what get_current_request() returns: "None" or "request"
    site,           \* what Site.find_for_request(request) returns: "None" or "site"
    features,       \* the site's related features record
    ret,            \* history: the most recent call and, while the context
                    \* it was made in still holds, its outcome
    args,           \* history: the arguments of the most recent call (the
                    \* declaration of the container, the value rendered,
                    \* the form field that is cleaned)
    threads         \* the threads that are resolving child_blocks, each with
                    \* its thread-local request and its position in the code

vars == <<_child_blocks, constructed, installed, request, site, features, ret,
          args, threads>>

-----------------------------------------------------------------------------
(* Bounds *)

\* The largest number of children a container is constructed with.
MaxChildren == 3

-----------------------------------------------------------------------------
(* Strings compared by Python's str.__lt__ *)

\* Code points of the characters that occur in the labels below.
Ord ==
    ("A" :> 65) @@ ("B" :> 66) @@ ("Z" :> 90) @@ ("a" :> 97) @@ ("d" :> 100) @@
    ("e" :> 101) @@ ("g" :> 103) @@ ("h" :> 104) @@ ("i" :> 105) @@ ("l" :> 108) @@
    ("n" :> 110) @@ ("p" :> 112) @@ ("t" :> 116) @@ ("y" :> 121)

\* a < b for two Python strings: lexicographic by code point, a proper prefix first.
RECURSIVE StrLess(_, _)
StrLess(a, b) ==
    IF b = <<>> THEN FALSE
    ELSE IF a = <<>> THEN TRUE
    ELSE IF Ord[Head(a)] # Ord[Head(b)] THEN Ord[Head(a)] < Ord[Head(b)]
    ELSE StrLess(Tail(a), Tail(b))

-----------------------------------------------------------------------------
(* Python's sorted(iterable, key=...): a stable sort *)

\* less[i, j] says that the key of the i-th element is < the key of the j-th.
\* s lists, sorted, the indices below x: x goes before the first index whose
\* key is strictly greater, hence after every index whose key is equal.
Insert(x, s, less) ==
    LET later == {k \in 1..Len(s) : less[x, s[k]]}
        p == IF later = {} THEN Len(s) + 1
             ELSE CHOOSE k \in later : \A m \in later : k <= m
    IN SubSeq(s, 1, p - 1) \o <<x>> \o SubSeq(s, p, Len(s))

\* The elements of seq in the order of their keys, equal keys in the order of seq.
Sorted(seq, less) ==
    LET F[i \in 0..Len(seq)] ==
            IF i = 0 THEN <<>> ELSE Insert(i, F[i - 1], less)
    IN [k \in 1..Len(seq) |-> seq[F[Len(seq)][k]]]

-----------------------------------------------------------------------------
(* OrderedDict *)

Keys(d) == {d[i].key : i \in 1..Len(d)}

DictValues(d) == [i \in 1..Len(d) |-> d[i].block]

\* d[key] = block: an existing key keeps its position, a new key is appended.
DictSet(d, key, block) ==
    IF key \in Keys(d)
    THEN [i \in 1..Len(d) |-> IF d[i].key = key THEN [key |-> key, block |-> block]
                                                 ELSE d[i]]
    ELSE Append(d, [key |-> key, block |-> block])

-----------------------------------------------------------------------------
(* Blocks *)

GROUP_SORT_VALUES ==
    ("" :> 0) @@ ("Basic" :> 10) @@ ("Multimedia" :> 20) @@ ("Navigation" :> 30) @@
    ("News & Calendar" :> 40) @@ ("Social Media" :> 50) @@ ("Misc" :> 60) @@
    ("Special" :> 70)

\* A block instance: its class, the name its class's get_block_tuple() is
\* overridden to return ("" when it is not overridden), the name set_name()
\* gave it, and its meta.label and meta.group.
Block(cls, override, label, group) ==
    [cls |-> cls, override |-> override, name |-> "", label |-> label, group |-> group]

\* The block instances containers are built from.
BlockInstances == {
    Block("A", "", <<"Z", "e", "d">>, "Basic"),
    Block("B", "", <<"A", "l", "p", "h", "a">>, "Basic"),
    Block("C", "", <<"A", "n", "y", "t", "h", "i", "n", "g">>, "Multimedia"),
    Block("D", "d_layout", <<"A", "l", "p", "h", "a">>, "Basic"),
    Block("E", "", <<"a", "l", "p", "h", "a">>, ""),
    Block("F", "", <<"B", "e", "t", "a">>, "Bogus") }

\* The default tuple for every block: overrides are not consulted.
get_block_tuple_default(block_inst) == <<block_inst.cls, block_inst>>

get_block_tuple(block_inst) ==
    IF block_inst.override # "" THEN <<block_inst.override, block_inst>>
    ELSE <<block_inst.cls, block_inst>>

set_name(block, name) == [block EXCEPT !.name = name]

\* FeatureCustomizedStreamBlock.__init__: a copy of base_blocks, supplemented
\* by local_blocks, a list of (name, block) tuples.
RECURSIVE Construct(_, _)
Construct(base_blocks, local_blocks) ==
    IF local_blocks = <<>> THEN base_blocks
    ELSE LET name == Head(local_blocks)[1]
             block == Head(local_blocks)[2]
         IN Construct(DictSet(base_blocks, name, set_name(block, name)),
                      Tail(local_blocks))

\* The lists of at most n tuples of distinct block instances.
RECURSIVE LocalBlockLists(_)
LocalBlockLists(n) ==
    IF n = 0 THEN {<<>>}
    ELSE LET shorter == LocalBlockLists(n - 1)
         IN shorter \cup
            {Append(l, get_block_tuple(b)) :
                <<l, b>> \in {p \in shorter \X BlockInstances :
                    /\ Len(p[1]) = n - 1
                    /\ \A i \in 1..Len(p[1]) : p[1][i][2] # p[2]}}

-----------------------------------------------------------------------------
(* Outcomes *)

Return(type, value) ==
    [kind |-> "return", type |-> type, value |-> value, exc |-> "", message |-> <<>>]

Raise(exc, message) ==
    [kind |-> "raise", type |-> "", value |-> <<>>, exc |-> exc, message |-> message]

NoFeatures == [exists |-> FALSE, enabled |-> {}]

\* A call without arguments.
NoArgs == <<>>

\* No thread is inside child_blocks.
NoThreads == <<>>

-----------------------------------------------------------------------------
(* The context of a call *)

\* features.feature_is_enabled(name), for the features record of the site.
feature_is_enabled(name) == name \in features.enabled

\* The features records a site can have for a container with these keys.
FeatureRecords(keys) ==
    {NoFeatures} \cup {[exists |-> TRUE, enabled |-> S] : S \in SUBSET keys}

-----------------------------------------------------------------------------
(* FeatureCustomizedStreamBlock's properties and methods *)

\* Site.find_for_request(request).features when there is no site, or when no
\* installed app gives Site a 'features' relation; evaluating the except
\* clause's Site.features.RelatedObjectDoesNotExist cannot catch it.
NoFeaturesAttribute == Raise("AttributeError", <<"features">>)

\* The items re-keyed by class name instead of by the key they were declared under.
child_blocks_rekeyed ==
    IF request = "None" THEN Return("OrderedDict", _child_blocks)
    ELSE IF site = "None" \/ ~installed THEN NoFeaturesAttribute
    ELSE IF ~features.exists THEN Return("OrderedDict", _child_blocks)
    ELSE Return("OrderedDict",
                [i \in 1..Len(SelectSeq(_child_blocks, LAMBDA item : feature_is_enabled(item.key))) |->
                    LET item == SelectSeq(_child_blocks,
                                          LAMBDA it : feature_is_enabled(it.key))[i]
                    IN [key |-> item.block.cls, block |-> item.block]])

\* The filter left out: every base child is returned whatever the registry says.
child_blocks_unfiltered ==
    IF request = "None" THEN Return("OrderedDict", _child_blocks)
    ELSE IF site = "None" \/ ~installed THEN NoFeaturesAttribute
    ELSE Return("OrderedDict", _child_blocks)

\* The result computed once, outside any request, and kept: every later
\* access returns it whatever the context has become.
child_blocks_cached == Return("OrderedDict", _child_blocks)

\* The no-request guard left out: the site is looked up for a request of None.
child_blocks_unguarded ==
    IF request = "None" \/ site = "None" \/ ~installed THEN NoFeaturesAttribute
    ELSE IF ~features.exists THEN Return("OrderedDict", _child_blocks)
    ELSE Return("OrderedDict",
                SelectSeq(_child_blocks, LAMBDA item : feature_is_enabled(item.key)))

\* The child_blocks property.
child_blocks ==
    IF request = "None" THEN Return("OrderedDict", _child_blocks)
    ELSE IF site = "None" \/ ~installed THEN NoFeaturesAttribute
    ELSE IF ~features.exists THEN Return("OrderedDict", _child_blocks)
    ELSE Return("OrderedDict",
                SelectSeq(_child_blocks, LAMBDA item : feature_is_enabled(item.key)))

\* The dependencies property; self._dependencies is the live values() view
\* of self._child_blocks.
dependencies ==
    IF request = "None" THEN Return("OrderedDict", _child_blocks)
    ELSE IF site = "None" \/ ~installed THEN NoFeaturesAttribute
    ELSE IF ~features.exists THEN Return("OrderedDict", _child_blocks)
    ELSE Return("list",
                SelectSeq(DictValues(_child_blocks),
                          LAMBDA block : feature_is_enabled(block.name)))

\* The text of the UnknownBlockGroupError, as its literal and interpolated parts.
UnknownBlockGroupMessage(group) ==
    <<"The group \"", group,
      "\" is not in FeatureCustomizedStreamBlock.GROUP_SORT_VALUES.",
      " Please either rename the group to match that the ones in that dict, or add \"",
      group, "\" to it.">>

\* The key function sort_groups, for a block whose group is known.
sort_groups(child_block) == GROUP_SORT_VALUES[child_block.group]

\* The comparisons of the keys child_block.meta.label of a list of blocks.
LabelLess(blocks) ==
    [i \in 1..Len(blocks), j \in 1..Len(blocks) |->
        StrLess(blocks[i].label, blocks[j].label)]

\* The comparisons of the keys sort_groups(child_block) of a list of blocks.
GroupLess(blocks) ==
    [i \in 1..Len(blocks), j \in 1..Len(blocks) |->
        sort_groups(blocks[i]) < sort_groups(blocks[j])]

\* A default rank in place of the error: GROUP_SORT_VALUES.get(group, 0).
SortedByGroupDefaultRank(blocks) ==
    Return("list",
           Sorted(blocks,
                  [i \in 1..Len(blocks), j \in 1..Len(blocks) |->
                      (IF blocks[i].group \in DOMAIN GROUP_SORT_VALUES
                       THEN GROUP_SORT_VALUES[blocks[i].group] ELSE 0)
                      < (IF blocks[j].group \in DOMAIN GROUP_SORT_VALUES
                         THEN GROUP_SORT_VALUES[blocks[j].group] ELSE 0)]))

\* sorted() computes the key of every element, in order, before it compares
\* any: the first block whose group is unknown raises.
SortedByGroup(blocks) ==
    LET unknown == {i \in 1..Len(blocks) : blocks[i].group \notin DOMAIN GROUP_SORT_VALUES}
        first == CHOOSE i \in unknown : \A j \in unknown : i <= j
    IN IF unknown # {}
       THEN Raise("UnknownBlockGroupError", UnknownBlockGroupMessage(blocks[first].group))
       ELSE Return("list", Sorted(blocks, GroupLess(blocks)))

\* The two sorts in the other order: by group first, by label last.
sorted_child_blocks_label_last ==
    LET visible == child_blocks
    IN IF visible.kind = "raise" THEN visible
       ELSE LET by_group == SortedByGroup(DictValues(visible.value))
            IN IF by_group.kind = "raise" THEN by_group
               ELSE Return("list", Sorted(by_group.value, LabelLess(by_group.value)))

\* The visible children taken in reverse before the two sorts: children
\* that tie on group and label come out in reverse declaration order.
sorted_child_blocks_reversed ==
    LET visible == child_blocks
    IN IF visible.kind = "raise" THEN visible
       ELSE LET values == DictValues(visible.value)
                child_blocks_ == [i \in 1..Len(values) |-> values[Len(values) + 1 - i]]
            IN SortedByGroup(Sorted(child_blocks_, LabelLess(child_blocks_)))

\* The base set sorted instead of the visible children.
sorted_child_blocks_base ==
    LET visible == child_blocks
    IN IF visible.kind = "raise" THEN visible
       ELSE LET child_blocks_ == DictValues(_child_blocks)
            IN SortedByGroup(Sorted(child_blocks_, LabelLess(child_blocks_)))

\* The sorted_child_blocks method.
sorted_child_blocks ==
    LET visible == child_blocks
    IN IF visible.kind = "raise" THEN visible
       ELSE LET child_blocks_ == DictValues(visible.value)
            IN SortedByGroup(Sorted(child_blocks_, LabelLess(child_blocks_)))

-----------------------------------------------------------------------------
(* Actions *)

\* No outcome on record.
NoOutcome == Return("", <<>>)

\* The record of a call: what was called, its outcome, and how the call
\* relates to the call before it: the first call of op, a call of op after
\* the context changed, or a repeat of op in an unchanged context, with the
\* same outcome or with another.
Called(op, out) ==
    [op |-> op, current |-> TRUE, out |-> out,
     seq |-> IF ret.op # op THEN "first"
             ELSE IF ~ret.current THEN "changed"
             ELSE IF ret.out = out THEN "repeat_same"
             ELSE "repeat_differs"]

\* The context changes: the outcome on record was computed in another one.
Outdated == [op |-> ret.op, current |-> FALSE, out |-> NoOutcome, seq |-> "first"]

\* A request is bound to the current thread; s is the site found for it and
\* f the features record of that site.
BindRequest(s, f) ==
    /\ (s = "None" \/ ~installed) => f = NoFeatures
    /\ request' = "request"
    /\ site' = s
    /\ features' = f
    /\ ret' = Outdated
    /\ UNCHANGED <<_child_blocks, constructed, installed>>

\* The request cycle ends.
ClearRequest ==
    /\ request # "None"
    /\ request' = "None"
    /\ site' = "None"
    /\ features' = NoFeatures
    /\ ret' = Outdated
    /\ UNCHANGED <<_child_blocks, constructed, installed>>

\* The registry changes while the request is bound.
EnableFeature(name) ==
    /\ features.exists
    /\ name \notin features.enabled
    /\ features' = [features EXCEPT !.enabled = @ \cup {name}]
    /\ ret' = Outdated
    /\ UNCHANGED <<_child_blocks, constructed, installed, request, site>>

DisableFeature(name) ==
    /\ features.exists
    /\ name \in features.enabled
    /\ features' = [features EXCEPT !.enabled = @ \ {name}]
    /\ ret' = Outdated
    /\ UNCHANGED <<_child_blocks, constructed, installed, request, site>>

\* A read of the child_blocks property that empties the base set as it goes.
GetChildBlocksDraining ==
    /\ ret' = Called("child_blocks", child_blocks)
    /\ _child_blocks' = <<>>
    /\ UNCHANGED <<constructed, installed, request, site, features>>

\* A read of the child_blocks property.
GetChildBlocks ==
    /\ ret' = Called("child_blocks", child_blocks)
    /\ UNCHANGED <<_child_blocks, constructed, installed, request, site, features>>

\* A read of the dependencies property.
GetDependencies ==
    /\ ret' = Called("dependencies", dependencies)
    /\ UNCHANGED <<_child_blocks, constructed, installed, request, site, features>>

\* A call of sorted_child_blocks that sorts the base set in place.
CallSortedChildBlocksInPlace ==
    /\ ret' = Called("sorted_child_blocks", sorted_child_blocks)
    /\ _child_blocks' = Sorted(_child_blocks, LabelLess(DictValues(_child_blocks)))
    /\ UNCHANGED <<constructed, installed, request, site, features>>

\* A call of sorted_child_blocks.
CallSortedChildBlocks ==
    /\ ret' = Called("sorted_child_blocks", sorted_child_blocks)
    /\ UNCHANGED <<_child_blocks, constructed, installed, request, site, features>>

-----------------------------------------------------------------------------
(* Specification *)

Init ==
    /\ \E local_blocks \in LocalBlockLists(MaxChildren) :
           _child_blocks = Construct(<<>>, local_blocks)
    /\ constructed = _child_blocks
    /\ installed \in BOOLEAN
    /\ request = "None"
    /\ site = "None"
    /\ features = NoFeatures
    /\ ret = [op |-> "none", current |-> FALSE, out |-> NoOutcome, seq |-> "first"]
    /\ args = NoArgs
    /\ threads = NoThreads

\* A step of a single thread that records no arguments.
Plain == UNCHANGED <<args, threads>>

Next ==
    \/ \E s \in {"None", "site"}, f \in FeatureRecords(Keys(_child_blocks)) :
           BindRequest(s, f) /\ Plain
    \/ ClearRequest /\ Plain
    \/ \E name \in Keys(_child_blocks) : EnableFeature(name) /\ Plain
    \/ \E name \in Keys(_child_blocks) : DisableFeature(name) /\ Plain
    \/ GetChildBlocks /\ Plain
    \/ GetDependencies /\ Plain
    \/ CallSortedChildBlocks /\ Plain

Spec == Init /\ [][Next]_vars

-----------------------------------------------------------------------------
(* Block classes and layout blocks *)

\* The largest number of local blocks a stream is declared with.
MaxDeclared == 2

\* The largest number of a container's children a site's features disable.
MaxDisabled == 1

\* A block class that mixes in BlockTupleMixin: the name its own
\* get_block_machine_name() and get_block_tuple() return ("" where the class
\* does not override the method), its Meta.label and Meta.group, and the
\* attributes it declares as FeatureCustomizedStreamBlock columns.
ClassDef(machine_name, tuple_name, label, group, columns) ==
    [base |-> "BlockTupleMixin", machine_name |-> machine_name,
     tuple_name |-> tuple_name, label |-> label, group |-> group,
     columns |-> columns]

\* The block classes of jetstream that columns permit, and the layout blocks.
JetstreamClasses ==
    ("FancyRichTextBlock" :> ClassDef("", "",
        <<"R", "i", "c", "h", " ", "T", "e", "x", "t">>, "Basic",
        {})) @@
    ("CalloutBlock" :> ClassDef("", "",
        <<"C", "a", "l", "l", "o", "u", "t">>, "Misc",
        {})) @@
    ("ImageCarouselBlock" :> ClassDef("", "",
        <<"I", "m", "a", "g", "e", " ", "C", "a", "r", "o", "u", "s", "e", "l">>, "Multimedia",
        {})) @@
    ("ImageGalleryBlock" :> ClassDef("", "",
        <<"I", "m", "a", "g", "e", " ", "G", "a", "l", "l", "e", "r", "y">>, "Multimedia",
        {})) @@
    ("RelatedLinksBlock" :> ClassDef("", "",
        <<"R", "e", "l", "a", "t", "e", "d", " ", "L", "i", "n", "k", "s">>, "Navigation",
        {})) @@
    ("ImagePanelBlock" :> ClassDef("", "",
        <<"I", "m", "a", "g", "e", " ", "P", "a", "n", "e", "l">>, "Multimedia",
        {})) @@
    ("VideoBlock" :> ClassDef("", "",
        <<"V", "i", "d", "e", "o", " ", "w", "/", " ", "T", "i", "t", "l", "e">>, "Multimedia",
        {})) @@
    ("IFrameEmbedBlock" :> ClassDef("", "",
        <<"i", "F", "r", "a", "m", "e">>, "Special",
        {})) @@
    ("SectionTitleBlock" :> ClassDef("", "",
        <<"S", "e", "c", "t", "i", "o", "n", " ", "T", "i", "t", "l", "e">>, "Basic",
        {})) @@
    ("MenuListingBlock" :> ClassDef("", "",
        <<"M", "e", "n", "u", " ", "S", "e", "c", "t", "i", "o", "n">>, "Navigation",
        {})) @@
    ("SpacerBlock" :> ClassDef("", "",
        <<"S", "p", "a", "c", "e", "r">>, "Basic",
        {})) @@
    ("BaseTwoColumnSubBlock" :> ClassDef("two_column_layout", "two_column_layout",
        <<"T", "w", "o", " ", "C", "o", "l", "u", "m", "n", "s">>, "Basic",
        {"left_column", "right_column"})) @@
    ("BaseTwoColumnBlock" :> ClassDef("two_column_layout", "two_column_layout",
        <<"T", "w", "o", " ", "C", "o", "l", "u", "m", "n", "s">>, "Basic",
        {"left_column", "right_column"})) @@
    ("BaseThreeColumnSubBlock" :> ClassDef("three_column_layout", "three_column_layout",
        <<"T", "h", "r", "e", "e", " ", "C", "o", "l", "u", "m", "n", "s">>, "Basic",
        {"left_column", "middle_column", "right_column"})) @@
    ("BaseThreeColumnBlock" :> ClassDef("three_column_layout", "three_column_layout",
        <<"T", "h", "r", "e", "e", " ", "C", "o", "l", "u", "m", "n", "s">>, "Basic",
        {"left_column", "middle_column", "right_column"})) @@
    ("BaseFourColumnBlock" :> ClassDef("four_column_layout", "four_column_layout",
        <<"F", "o", "u", "r", " ", "C", "o", "l", "u", "m", "n", "s">>, "Basic",
        {"column_one", "column_two", "column_three", "column_four"})) @@
    ("BaseSidebarLayoutBlock" :> ClassDef("", "",
        <<"S", "i", "d", "e", "b", "a", "r", " ", "L", "a", "y", "o", "u", "t">>, "Basic",
        {"sidebar"}))

\* A class that an implementing module derives from a class of jetstream
\* under a name of its own, overriding neither method: it inherits the rest.
Subclass(base) ==
    [JetstreamClasses[base] EXCEPT !.base = base, !.machine_name = "",
                                   !.tuple_name = ""]

ImplementingClasses ==
    ("TwoColumnBlock" :> Subclass("BaseTwoColumnBlock")) @@
    ("TwoColumnSubBlock" :> Subclass("BaseTwoColumnSubBlock")) @@
    ("ThreeColumnBlock" :> Subclass("BaseThreeColumnBlock")) @@
    ("ThreeColumnSubBlock" :> Subclass("BaseThreeColumnSubBlock"))

Classes == JetstreamClasses @@ ImplementingClasses

\* The classes that declare columns.
LayoutClasses == {cls \in DOMAIN Classes : Classes[cls].columns # {}}

\* BlockTupleMixin.get_block_machine_name alone: the name of the class.
get_block_machine_name_default(cls) == cls

\* cls.get_block_machine_name(): the method of the first class on the method
\* resolution order of cls that defines it; BlockTupleMixin's returns
\* cls.__name__.
RECURSIVE MachineNameFrom(_, _)
MachineNameFrom(cls, klass) ==
    IF klass = "BlockTupleMixin" THEN cls
    ELSE IF Classes[klass].machine_name # "" THEN Classes[klass].machine_name
    ELSE MachineNameFrom(cls, Classes[klass].base)

get_block_machine_name(cls) == MachineNameFrom(cls, cls)

\* The name that the get_block_tuple method found on the method resolution
\* order of klass returns, "" when the method found is BlockTupleMixin's.
RECURSIVE TupleOverride(_)
TupleOverride(klass) ==
    IF klass = "BlockTupleMixin" THEN ""
    ELSE IF Classes[klass].tuple_name # "" THEN Classes[klass].tuple_name
    ELSE TupleOverride(Classes[klass].base)

\* cls(): a new instance of the class.
NewBlock(cls) ==
    Block(cls, TupleOverride(cls), Classes[cls].label, Classes[cls].group)

\* [get_block_tuple(cls()) for cls in classes]
BlockTuples(classes) ==
    [i \in 1..Len(classes) |-> get_block_tuple(NewBlock(classes[i]))]

COLUMN_PERMITTED_BLOCKS ==
    BlockTuples(<<"FancyRichTextBlock", "CalloutBlock", "ImageCarouselBlock",
                  "ImageGalleryBlock", "RelatedLinksBlock", "ImagePanelBlock",
                  "VideoBlock", "IFrameEmbedBlock", "SectionTitleBlock",
                  "MenuListingBlock", "SpacerBlock">>)

\* Columns that also permit the sub forms of the layout blocks.
ColumnBlocksNesting(cls, column) ==
    COLUMN_PERMITTED_BLOCKS \o
    BlockTuples(<<"BaseTwoColumnSubBlock", "BaseThreeColumnSubBlock">>)

\* The local_blocks that the attribute column of class cls passes to
\* FeatureCustomizedStreamBlock.
ColumnBlocks(cls, column) == COLUMN_PERMITTED_BLOCKS

\* FeatureCustomizedStreamBlock(local_blocks), for a class whose declared
\* children are base_blocks: the outcome of the constructor.
InitStreamBlock(base_blocks, local_blocks) ==
    Return("FeatureCustomizedStreamBlock", Construct(base_blocks, local_blocks))

\* The lists of at most n classes that a stream's local blocks are instances of.
DeclarableClasses ==
    {"BaseTwoColumnBlock", "BaseTwoColumnSubBlock", "BaseThreeColumnBlock",
     "BaseThreeColumnSubBlock"} \cup DOMAIN ImplementingClasses

RECURSIVE ClassLists(_)
ClassLists(n) ==
    IF n = 0 THEN {<<>>}
    ELSE LET shorter == ClassLists(n - 1)
         IN shorter \cup {Append(l, cls) : l \in shorter, cls \in DeclarableClasses}

\* The children that a subclass of FeatureCustomizedStreamBlock declares in
\* its class body, keyed by attribute name.
BaseBlockChoices ==
    {<<>>} \cup
    {<<[key |-> get_block_machine_name(cls),
        block |-> set_name(NewBlock(cls), get_block_machine_name(cls))]>> :
        cls \in {"BaseTwoColumnBlock"}}

\* The sets of at most n elements of S.
RECURSIVE AtMost(_, _)
AtMost(S, n) ==
    IF n = 0 THEN {{}}
    ELSE LET smaller == AtMost(S, n - 1)
         IN smaller \cup {d \cup {x} : d \in smaller, x \in S}

\* The features records that disable at most MaxDisabled of the children.
FeatureRecordsDisabling(keys) ==
    {NoFeatures} \cup
    {[exists |-> TRUE, enabled |-> keys \ d] : d \in AtMost(keys, MaxDisabled)}

\* No container has been declared yet.
NoDeclaration ==
    [kind |-> "none", classes |-> <<>>, machine_names |-> <<>>, column |-> "",
     base_blocks |-> <<>>, local_blocks |-> <<>>]

\* The constructor has run with these arguments and this outcome; a
\* constructor that raises leaves no container behind.
Declared(declaration, out) ==
    /\ args' = declaration
    /\ _child_blocks' = IF out.kind = "return" THEN out.value ELSE <<>>
    /\ constructed' = _child_blocks'
    /\ ret' = Called("__init__", out)
    /\ UNCHANGED <<installed, request, site, features, threads>>

\* The class body of layout class cls declares its attribute column.
DeclareColumn(cls, column) ==
    /\ args.kind = "none"
    /\ column \in Classes[cls].columns
    /\ Declared([kind |-> "column", classes |-> <<cls>>,
                 machine_names |-> <<get_block_machine_name(cls)>>,
                 column |-> column, base_blocks |-> <<>>,
                 local_blocks |-> ColumnBlocks(cls, column)],
                InitStreamBlock(<<>>, ColumnBlocks(cls, column)))

\* A stream is declared over instances of the given classes.
DeclareStream(base_blocks, classes) ==
    /\ args.kind = "none"
    /\ Declared([kind |-> "stream", classes |-> classes,
                 machine_names |-> [i \in 1..Len(classes) |->
                                       get_block_machine_name(classes[i])],
                 column |-> "", base_blocks |-> base_blocks,
                 local_blocks |-> BlockTuples(classes)],
                InitStreamBlock(base_blocks, BlockTuples(classes)))

InitSchema ==
    /\ _child_blocks = <<>>
    /\ constructed = <<>>
    /\ installed \in BOOLEAN
    /\ request = "None"
    /\ site = "None"
    /\ features = NoFeatures
    /\ ret = [op |-> "none", current |-> FALSE, out |-> NoOutcome, seq |-> "first"]
    /\ args = NoDeclaration
    /\ threads = NoThreads

\* A step that leaves the declaration alone.
KeepDeclaration == args.kind # "none" /\ UNCHANGED <<args, threads>>

NextSchema ==
    \/ \E cls \in LayoutClasses : \E column \in Classes[cls].columns :
           DeclareColumn(cls, column)
    \/ \E base_blocks \in BaseBlockChoices, classes \in ClassLists(MaxDeclared) :
           DeclareStream(base_blocks, classes)
    \/ \E s \in {"None", "site"}, f \in FeatureRecordsDisabling(Keys(_child_blocks)) :
           BindRequest(s, f) /\ KeepDeclaration
    \/ ClearRequest /\ KeepDeclaration
    \/ GetChildBlocks /\ KeepDeclaration

SpecSchema == InitSchema /\ [][NextSchema]_vars

-----------------------------------------------------------------------------
(* Style-bearing blocks: ImagePanelBlock, ImageGalleryBlock and             *)
(* SectionTitleBlock choose a template by the value's "style" field.        *)
(*                                                                         *)
(* A block value is a record of its fields; a field is <<>> when the value *)
(* has no such key and <<v>> when it holds v.  A str that is built by      *)
(* joining is the sequence of its parts.                                   *)

ImagePanelBlock_STYLES ==
    << <<"link", "Image Link",
         "jetstream/blocks/image_panel_block-link.html", <<>> >>,
       <<"captioned", "Image w/ Caption",
         "jetstream/blocks/image_panel_block-caption.html", <<>> >>,
       <<"rollover", "Image Link w/ Rollover Text",
         "jetstream/blocks/image_panel_block-rollover.html", <<>> >>,
       <<"separate_text", "Image Card (Equal Heights)",
         "jetstream/blocks/image_panel_block-card.html", <<"equal">> >>,
       <<"separate_text_natural", "Image Card (Natural Heights)",
         "jetstream/blocks/image_panel_block-card.html", <<"natural">> >>,
       <<"image_listing_left", "Listing (Image Left)",
         "jetstream/blocks/image_panel_block-listing.html", <<"left">> >>,
       <<"image_listing_right", "Listing (Image Right)",
         "jetstream/blocks/image_panel_block-listing.html", <<"right">> >> >>

ImageGalleryBlock_STYLES ==
    << <<"gallery", "Image Gallery",
         "jetstream/blocks/image_gallery_block-gallery.html", <<>> >>,
       <<"slider", "Image Slider w/ Thumbnail Picker",
         "jetstream/blocks/image_gallery_block-slider.html", <<>> >> >>

\* The values of ImageGalleryBlock.COLUMN_CHOICES.
COLUMN_CHOICES == {1, 2, 3, 4, 6}

SectionTitleBlock_STYLES ==
    ("section_divider" :> "jetstream/blocks/section_title-section_divider.html") @@
    ("block_header" :> "jetstream/blocks/section_title-block_header.html")

\* sep.join(words)
RECURSIVE Join(_, _)
Join(sep, words) ==
    IF Len(words) <= 1 THEN words
    ELSE <<Head(words), sep>> \o Join(sep, Tail(words))

\* A map from each style to its label and template.
style_to_template_map_shifted(STYLES) ==
    [key \in {STYLES[i][1] : i \in 1..Len(STYLES)} |->
        LET last == CHOOSE i \in 1..Len(STYLES) :
                        /\ STYLES[i][1] = key
                        /\ \A j \in 1..Len(STYLES) : STYLES[j][1] = key => j <= i
        IN <<STYLES[last][2], STYLES[last][3]>>]

\* {style[0]: (style[2], style[3]) for style in self.STYLES}
style_to_template_map(STYLES) ==
    [key \in {STYLES[i][1] : i \in 1..Len(STYLES)} |->
        LET last == CHOOSE i \in 1..Len(STYLES) :
                        /\ STYLES[i][1] = key
                        /\ \A j \in 1..Len(STYLES) : STYLES[j][1] = key => j <= i
        IN <<STYLES[last][3], STYLES[last][4]>>]

\* What a render hands to its renderer: render_to_string with a template and
\* a context, or the block's render_basic, which takes neither a template
\* nor new context keys.
Rendered(via, template, extra_classes, bootstrap_column_width, parent_context) ==
    Return("SafeText",
           [via |-> via, template |-> template, extra_classes |-> extra_classes,
            bootstrap_column_width |-> bootstrap_column_width,
            parent_context |-> parent_context])

\* self.render_basic(value, context=context)
render_basic(value, context) == Rendered("render_basic", "", <<>>, <<>>, context)

\* self.get_context(value, parent_context=context if context is None else dict(context))
parent_context(context) == IF context = "None" THEN "None" ELSE context

ImagePanelBlock_render(value, context) ==
    LET map == style_to_template_map(ImagePanelBlock_STYLES)
    IN IF value.style = <<>> \/ value.style[1] \notin DOMAIN map
       THEN render_basic(value, context)
       ELSE LET template == map[value.style[1]][1]
                extra_classes == map[value.style[1]][2]
            IN Rendered("render_to_string", template,
                        <<Join(" ", extra_classes)>>, <<>>, parent_context(context))

ImageGalleryBlock_render(value, context) ==
    LET map == style_to_template_map(ImageGalleryBlock_STYLES)
    IN IF value.style = <<>> \/ value.style[1] \notin DOMAIN map
       THEN render_basic(value, context)
       ELSE LET template == map[value.style[1]][1]
                extra_classes == map[value.style[1]][2]
            IN IF value.columns = <<>> THEN Raise("KeyError", <<"columns">>)
               ELSE Rendered("render_to_string", template,
                             <<Join(" ", extra_classes)>>,
                             <<12 \div value.columns[1]>>, parent_context(context))

\* A render whose lookup of the style is not guarded.
SectionTitleBlock_render_unguarded(value, context) ==
    IF value.style = <<>> THEN Raise("KeyError", <<"style">>)
    ELSE IF value.style[1] \notin DOMAIN SectionTitleBlock_STYLES
    THEN Raise("KeyError", value.style)
    ELSE Rendered("render_to_string", SectionTitleBlock_STYLES[value.style[1]],
                  <<>>, <<>>, parent_context(context))

SectionTitleBlock_render(value, context) ==
    IF value.style = <<>> \/ value.style[1] \notin DOMAIN SectionTitleBlock_STYLES
    THEN render_basic(value, context)
    ELSE Rendered("render_to_string", SectionTitleBlock_STYLES[value.style[1]],
                  <<>>, <<>>, parent_context(context))

\* block.render(value, context)
render(block, value, context) ==
    CASE block = "ImagePanelBlock" -> ImagePanelBlock_render(value, context)
      [] block = "ImageGalleryBlock" -> ImageGalleryBlock_render(value, context)
      [] block = "SectionTitleBlock" -> SectionTitleBlock_render(value, context)

StyleBlocks == {"ImagePanelBlock", "ImageGalleryBlock", "SectionTitleBlock"}

\* The style fields of the values: no style key, None, a style of any of the
\* blocks, or a style that no block declares.
StyleFields ==
    {<<>>, <<"None">>, <<"no_such_style">>} \cup
    {<<ImagePanelBlock_STYLES[i][1]>> : i \in 1..Len(ImagePanelBlock_STYLES)} \cup
    {<<ImageGalleryBlock_STYLES[i][1]>> : i \in 1..Len(ImageGalleryBlock_STYLES)} \cup
    {<<key>> : key \in DOMAIN SectionTitleBlock_STYLES}

\* The populated values of a block: StructBlock fills every field that the
\* block declares, an ImageGalleryBlock's columns with one of its choices.
BlockValues(block) ==
    [style : StyleFields,
     columns : IF block = "ImageGalleryBlock"
               THEN {<<c>> : c \in COLUMN_CHOICES} ELSE {<<>>},
     display_caption : IF block = "ImagePanelBlock"
                       THEN {<<FALSE>>, <<TRUE>>} ELSE {<<>>}]

\* block.render(value, context=context) is called.
Render(block, value, context) ==
    /\ args' = [block |-> block, value |-> value, context |-> context]
    /\ ret' = Called("render", render(block, value, context))
    /\ UNCHANGED <<_child_blocks, constructed, installed, request, site,
                   features, threads>>

InitRender ==
    /\ _child_blocks = <<>>
    /\ constructed = <<>>
    /\ installed = FALSE
    /\ request = "None"
    /\ site = "None"
    /\ features = NoFeatures
    /\ ret = [op |-> "none", current |-> FALSE, out |-> NoOutcome, seq |-> "first"]
    /\ args = NoArgs
    /\ threads = NoThreads

NextRender ==
    \E block \in StyleBlocks : \E value \in BlockValues(block) :
        \E context \in {"None", "context"} : Render(block, value, context)

SpecRender == InitRender /\ [][NextRender]_vars

-----------------------------------------------------------------------------
(* IFrameBlock.clean and custom_bleach.                                     *)
(*                                                                         *)
(* Markup is a sequence of lexemes: the start of a tag ("<iframe"), the    *)
(* end of a start tag (">"), whole tags without attributes ("<b>",         *)
(* "</iframe>"), a space, "=", a quote character, and runs of other text.  *)
(* An attribute value is the sequence of the lexemes between its quotes.   *)

\* The largest number of attributes written on a submitted iframe tag.
MaxAttrs == 2

DQ == "\""

SQ == "'"

\* The index of the first element of seq that is in S, Len(seq) + 1 if none.
First(seq, S) ==
    IF \E k \in 1..Len(seq) : seq[k] \in S
    THEN CHOOSE k \in 1..Len(seq) : seq[k] \in S /\ \A j \in 1..(k - 1) : seq[j] \notin S
    ELSE Len(seq) + 1

\* seq from its k-th element on.
From(seq, k) == SubSeq(seq, k, Len(seq))

\* The concatenation of a sequence of sequences.
RECURSIVE Concat(_)
Concat(seqs) == IF seqs = <<>> THEN <<>> ELSE Head(seqs) \o Concat(Tail(seqs))

\* A dict of attributes that keeps the first value given for a name, as the
\* parser does.
AddAttr(attrs, name, value) ==
    IF \E k \in 1..Len(attrs) : attrs[k].name = name THEN attrs
    ELSE Append(attrs, [name |-> name, value |-> value])

\* The parser inside a start tag: the attributes, up to the ">" that ends
\* the tag, and the markup after it.  A value is quoted by either quote
\* character and ends at the next occurrence of that character.
RECURSIVE ParseAttrs(_, _)
ParseAttrs(markup, attrs) ==
    IF markup = <<>> THEN [attrs |-> attrs, rest |-> <<>>]
    ELSE IF Head(markup) = ">" THEN [attrs |-> attrs, rest |-> Tail(markup)]
    ELSE IF Head(markup) = " " THEN ParseAttrs(Tail(markup), attrs)
    ELSE LET name == Head(markup)
             after == Tail(markup)
         IN IF Len(after) >= 2 /\ after[1] = "=" /\ after[2] \in {DQ, SQ}
            THEN LET body == From(after, 3)
                     close == First(body, {after[2]})
                 IN ParseAttrs(From(body, close + 1),
                               AddAttr(attrs, name, SubSeq(body, 1, close - 1)))
            ELSE IF Len(after) >= 2 /\ after[1] = "=" /\ after[2] \notin {" ", ">"}
            THEN ParseAttrs(From(after, 3), AddAttr(attrs, name, <<after[2]>>))
            ELSE ParseAttrs(after, AddAttr(attrs, name, <<>>))

\* The tags without attributes: the end tag of each start tag, the name of
\* each tag, and each tag as escaped text.
EndTag == ("<script>" :> "</script>") @@ ("<b>" :> "</b>")

TagName ==
    ("<script>" :> "script") @@ ("</script>" :> "script") @@
    ("<b>" :> "b") @@ ("</b>" :> "b")

Escaped ==
    ("<script>" :> "&lt;script&gt;") @@ ("</script>" :> "&lt;/script&gt;") @@
    ("<b>" :> "&lt;b&gt;") @@ ("</b>" :> "&lt;/b&gt;")

\* The child nodes of an element, each as its markup: an element from its
\* start tag to its end tag, or a run of text, which is one node up to the
\* next start tag.
RECURSIVE Contents(_)
Contents(markup) ==
    IF markup = <<>> THEN <<>>
    ELSE IF Head(markup) \in DOMAIN EndTag
    THEN LET close == First(markup, {EndTag[Head(markup)]})
         IN <<SubSeq(markup, 1, close)>> \o Contents(From(markup, close + 1))
    ELSE LET next == First(markup, DOMAIN EndTag)
         IN <<SubSeq(markup, 1, next - 1)>> \o Contents(From(markup, next))

\* None, where a Tag is expected.
NoTag == [found |-> FALSE, attrs |-> <<>>, contents |-> <<>>]

\* soup.find('iframe'): the first iframe element of the parsed value, with
\* its attrs and its contents, or None.
find_iframe(value) ==
    LET start == First(value, {"<iframe"})
    IN IF start > Len(value) THEN NoTag
       ELSE LET tag == ParseAttrs(From(value, start + 1), <<>>)
                close == First(tag.rest, {"</iframe>"})
            IN [found |-> TRUE, attrs |-> tag.attrs,
                contents |-> Contents(SubSeq(tag.rest, 1, close - 1))]

\* [tag.strip() for tag in allowed_tags.split(',')]
Split(allowed_tags) ==
    {allowed_tags[k] : k \in {j \in 1..Len(allowed_tags) : allowed_tags[j] \notin {",", " "}}}

\* bleach.clean(value, tags=tags, strip=strip): a tag that is not allowed is
\* removed when strip is set and escaped otherwise; text is kept.
bleach_clean(value, tags, strip) ==
    LET Cleaned(lexeme) ==
            IF lexeme \notin DOMAIN TagName \/ TagName[lexeme] \in tags THEN <<lexeme>>
            ELSE IF strip THEN <<>>
            ELSE <<Escaped[lexeme]>>
    IN Concat([k \in 1..Len(value) |-> Cleaned(value[k])])

\* custom_bleach(value, allowed_tags), under the bleach settings of the site
\* (get_bleach_default_options()), of which strip matters here.
custom_bleach(value, allowed_tags, strip) ==
    bleach_clean(value, Split(allowed_tags), strip)

\* allowed_tags of IFrameBlock.clean: the attributes that are let through.
allowed_tags ==
    {"allowfullscreen", "height", "width", "name", "referrerpolicy", "sandbox",
     "src", "title", "frameborder"}

\* ' {0}="{1}"'.format(attr, iframe.attrs[attr]) for each allowed attribute
RECURSIVE FormatAttrs(_)
FormatAttrs(attrs) ==
    IF attrs = <<>> THEN <<>>
    ELSE (IF Head(attrs).name \in allowed_tags
          THEN <<" ", Head(attrs).name, "=", DQ>> \o Head(attrs).value \o <<DQ>>
          ELSE <<>>) \o FormatAttrs(Tail(attrs))

\* A clean that answers a value without an iframe by an empty iframe.
IFrameBlock_clean_lenient(value, strip) ==
    LET iframe == find_iframe(value)
    IN IF iframe = NoTag
       THEN Return("str", <<"<iframe", " ", "scrolling", "=", DQ, "auto", DQ, ">",
                            "</iframe>">>)
       ELSE Return("str", <<"<iframe">> \o FormatAttrs(iframe.attrs) \o
                          <<" ", "scrolling", "=", DQ, "auto", DQ, ">">> \o
                          custom_bleach(Concat(Join(<<" ">>, iframe.contents)),
                                        <<"a", ",", "b", ",", "i", ",", "em", ",",
                                          "strong", ",", "br", ",", "sup", ",",
                                          "sub">>, strip) \o
                          <<"</iframe>">>)

\* IFrameBlock.clean(value), under the bleach settings of the site.
IFrameBlock_clean(value, strip) ==
    LET iframe == find_iframe(value)
    IN IF iframe = NoTag
       THEN Raise("ValidationError",
                  <<"The embed string needs to look like '<iframe ...></iframe>'">>)
       ELSE LET contents == custom_bleach(Concat(Join(<<" ">>, iframe.contents)),
                                          <<"a", ",", "b", ",", "i", ",", "em", ",",
                                            "strong", ",", "br", ",", "sup", ",",
                                            "sub">>, strip)
            IN Return("str", <<"<iframe">> \o FormatAttrs(iframe.attrs) \o
                             <<" ", "scrolling", "=", DQ, "auto", DQ, ">">> \o
                             contents \o <<"</iframe>">>)

\* The attributes an editor writes on the iframe tag: a plain value in
\* double quotes, or, in single quotes, a value that holds double quotes.
SubmittedAttrs ==
    {[name |-> name, quote |-> DQ, value |-> value] :
        name \in {"src", "onclick", "style"},
        value \in {<<"https://x">>, <<"evil()">>}} \cup
    {[name |-> name, quote |-> SQ,
      value |-> <<"x", DQ, " ", "onclick", "=", DQ, "evil()">>] :
        name \in {"src", "onclick", "style"}}

\* What an editor writes inside the iframe element.
SubmittedContents ==
    {<<>>, <<"hi">>, <<"<b>", "hi", "</b>">>,
     <<"<script>", "bad", "</script>", "hi">>}

\* What an editor writes in place of an iframe element.
SubmittedOther == SubmittedContents \cup {<<"&lt;iframe&gt;", "hi">>}

\* The embed string as the editor wrote it.
RECURSIVE WriteAttrs(_)
WriteAttrs(attrs) ==
    IF attrs = <<>> THEN <<>>
    ELSE <<" ", Head(attrs).name, "=", Head(attrs).quote>> \o Head(attrs).value \o
         <<Head(attrs).quote>> \o WriteAttrs(Tail(attrs))

Written(iframe, attrs, contents) ==
    IF iframe
    THEN <<"<iframe">> \o WriteAttrs(attrs) \o <<">">> \o contents \o <<"</iframe>">>
    ELSE contents

\* The form field: what has been written, piece by piece, and its text.
Field(iframe, attrs, contents, strip) ==
    [iframe |-> iframe, attrs |-> attrs, contents |-> contents, strip |-> strip,
     value |-> Written(iframe, attrs, contents)]

\* The editor changes the field.
Edit(field) ==
    /\ args' = field
    /\ ret' = Outdated
    /\ UNCHANGED <<_child_blocks, constructed, installed, request, site,
                   features, threads>>

\* The editor writes one more attribute on the iframe tag.
WriteAttr(attr) ==
    /\ args.iframe
    /\ Len(args.attrs) < MaxAttrs
    /\ Edit(Field(TRUE, Append(args.attrs, attr), args.contents, args.strip))

\* The editor replaces what is inside the iframe element, or in its place.
WriteContents(contents) ==
    /\ contents # args.contents
    /\ args.iframe => contents \in SubmittedContents
    /\ Edit(Field(args.iframe, args.attrs, contents, args.strip))

\* The form is submitted: the block cleans the field's text.
Clean ==
    /\ ret' = Called("clean", IFrameBlock_clean(args.value, args.strip))
    /\ UNCHANGED <<_child_blocks, constructed, installed, request, site,
                   features, args, threads>>

\* The page is edited again without a change to the field: the form is
\* submitted with the text the block stored, and the block cleans it.
CleanStored ==
    /\ ret.current
    /\ ret.op = "clean"
    /\ ret.out.kind = "return"
    /\ ret' = Called("clean_stored", IFrameBlock_clean(ret.out.value, args.strip))
    /\ UNCHANGED <<_child_blocks, constructed, installed, request, site,
                   features, args, threads>>

InitClean ==
    /\ _child_blocks = <<>>
    /\ constructed = <<>>
    /\ installed = FALSE
    /\ request = "None"
    /\ site = "None"
    /\ features = NoFeatures
    /\ ret = [op |-> "none", current |-> FALSE, out |-> NoOutcome, seq |-> "first"]
    /\ \E iframe \in BOOLEAN, strip \in BOOLEAN : args = Field(iframe, <<>>, <<>>, strip)
    /\ threads = NoThreads

NextClean ==
    \/ \E attr \in SubmittedAttrs : WriteAttr(attr)
    \/ \E contents \in SubmittedOther : WriteContents(contents)
    \/ Clean
    \/ CleanStored

SpecClean == InitClean /\ [][NextClean]_vars

-----------------------------------------------------------------------------
(* Concurrent reads of child_blocks: two request threads resolve the same   *)
(* container, each under the request bound to it, and their steps          *)
(* interleave.  self._child_blocks is shared; everything else is local.    *)

\* The largest number of children of the shared container.
MaxShared == 2

Threads == {"t1", "t2"}

\* The containers that the threads share.
SharedContainers ==
    {Construct(<<>>, local_blocks) :
        local_blocks \in {l \in LocalBlockLists(MaxShared) :
                             \A k \in 1..Len(l) : l[k][2].cls \in {"A", "B", "C"}}}

\* What get_current_request() and the site lookups give in one thread.
ThreadContexts(keys, features_installed) ==
    {[request |-> "None", site |-> "None", features |-> NoFeatures],
     [request |-> "request", site |-> "None", features |-> NoFeatures]} \cup
    {[request |-> "request", site |-> "site", features |-> f] :
        f \in IF features_installed THEN FeatureRecords(keys) ELSE {NoFeatures}}

\* A thread that is about to read child_blocks under a context.
Starting(context) ==
    [pc |-> "get_current_request", context |-> context, i |-> 0, items |-> <<>>,
     out |-> NoOutcome, overlapped |-> FALSE]

\* Thread t takes a step to new: every other thread that is inside the
\* property has now been overlapped by a step of t.
Step(t, new) ==
    /\ threads' = [u \in Threads |->
                      IF u = t THEN new
                      ELSE IF threads[u].pc \in {"get_current_request", "done"}
                      THEN threads[u]
                      ELSE [threads[u] EXCEPT !.overlapped = TRUE]]
    /\ UNCHANGED <<constructed, installed, request, site, features, ret, args>>

\* Thread t returns out from the property.
Done(t, out) == [threads[t] EXCEPT !.pc = "done", !.out = out]

\* request = get_current_request(); if request is None: return self._child_blocks
ReadRequest(t) ==
    /\ threads[t].pc = "get_current_request"
    /\ Step(t, IF threads[t].context.request = "None"
               THEN Done(t, Return("OrderedDict", _child_blocks))
               ELSE [threads[t] EXCEPT !.pc = "features"])
    /\ UNCHANGED _child_blocks

\* features = Site.find_for_request(request).features, with its except clause
FindFeatures(t) ==
    /\ threads[t].pc = "features"
    /\ Step(t, IF threads[t].context.site = "None" \/ ~installed
               THEN Done(t, NoFeaturesAttribute)
               ELSE IF ~threads[t].context.features.exists
               THEN Done(t, Return("OrderedDict", _child_blocks))
               ELSE [threads[t] EXCEPT !.pc = "items"])
    /\ UNCHANGED _child_blocks

\* A step of the comprehension that deletes a disabled item from
\* self._child_blocks and returns self._child_blocks at the end.
FilterItemInPlace(t) ==
    /\ threads[t].pc = "items"
    /\ IF threads[t].i < Len(_child_blocks)
       THEN LET item == _child_blocks[threads[t].i + 1]
            IN IF item.key \in threads[t].context.features.enabled
               THEN /\ Step(t, [threads[t] EXCEPT !.i = @ + 1])
                    /\ UNCHANGED _child_blocks
               ELSE /\ Step(t, threads[t])
                    /\ _child_blocks' = SelectSeq(_child_blocks, LAMBDA e : e # item)
       ELSE /\ Step(t, Done(t, Return("OrderedDict", _child_blocks)))
            /\ UNCHANGED _child_blocks

\* A step of [item for item in self._child_blocks.items() if
\* features.feature_is_enabled(item[0])]: the next item of the shared dict is
\* taken, or the list is complete and OrderedDict(...) of it is returned.
FilterItem(t) ==
    /\ threads[t].pc = "items"
    /\ Step(t, IF threads[t].i < Len(_child_blocks)
               THEN LET item == _child_blocks[threads[t].i + 1]
                    IN [threads[t] EXCEPT
                           !.i = @ + 1,
                           !.items = IF item.key \in threads[t].context.features.enabled
                                     THEN Append(@, item) ELSE @]
               ELSE Done(t, Return("OrderedDict", threads[t].items)))
    /\ UNCHANGED _child_blocks

InitConcurrent ==
    /\ _child_blocks \in SharedContainers
    /\ constructed = _child_blocks
    /\ installed \in BOOLEAN
    /\ request = "None"
    /\ site = "None"
    /\ features = NoFeatures
    /\ ret = [op |-> "none", current |-> FALSE, out |-> NoOutcome, seq |-> "first"]
    /\ args = NoArgs
    /\ threads \in [Threads -> {Starting(context) :
                      context \in ThreadContexts(Keys(_child_blocks), installed)}]

NextConcurrent ==
    \/ \E t \in Threads : ReadRequest(t)
    \/ \E t \in Threads : FindFeatures(t)
    \/ \E t \in Threads : FilterItem(t)

SpecConcurrent == InitConcurrent /\ [][NextConcurrent]_vars

-----------------------------------------------------------------------------
(* link_url (templatetags/jetstream_tags.py) over a LinkBlock value.        *)
(*                                                                         *)
(* A field of the value is <<>> when it holds None and <<v>> when it holds *)
(* v; what a call returns is wrapped in the same way.                      *)

\* The pages a PageChooserBlock can hold: get_url_parts() gives (site_id,
\* root_url, page_path), or None for a page that no site routes to.
Pages ==
    {[title |-> "About", url_parts |-> <<<<"1", "http://localhost", "/about/">>>>],
     [title |-> "News", url_parts |-> <<<<"1", "http://localhost", "/news/">>>>],
     [title |-> "Root", url_parts |-> <<>>]}

\* The documents a DocumentChooserBlock can hold, with their url.
Documents ==
    {[title |-> "Report", url |-> "/documents/1/report.pdf"],
     [title |-> "Form", url |-> "/documents/2/form.pdf"]}

\* What the url CharBlock can hold.
Urls == {<<>>, <<"">>, <<"/example-page">>, <<"http://www.caltech.edu">>}

\* block.get(key) is truthy: a chooser field holds a model instance, the
\* url field holds a str that is not empty.
Chosen(field) == field # <<>>

Entered(field) == field # <<>> /\ field[1] # ""

\* link_url(block)
link_url(block) ==
    IF Chosen(block.page)
    THEN LET url_parts == block.page[1].url_parts
         IN IF url_parts = <<>>
            THEN Raise("TypeError", <<"'NoneType' object is not subscriptable">>)
            ELSE Return("str", <<url_parts[1][3]>>)
    ELSE IF Chosen(block.document) THEN Return("str", <<block.document[1].url>>)
    ELSE IF Entered(block.url) THEN Return("str", block.url)
    ELSE Return("NoneType", <<>>)

\* A LinkBlock value with nothing chosen.
EmptyLink == [page |-> <<>>, document |-> <<>>, url |-> <<"">>]

\* The editor changes one field of the LinkBlock value.
ChooseLink(block) ==
    /\ block # args
    /\ args' = block
    /\ ret' = Outdated
    /\ UNCHANGED <<_child_blocks, constructed, installed, request, site,
                   features, threads>>

ChoosePage(page) == ChooseLink([args EXCEPT !.page = page])

ChooseDocument(document) == ChooseLink([args EXCEPT !.document = document])

EnterUrl(url) == ChooseLink([args EXCEPT !.url = url])

\* A template evaluates {% link_url self.link as url %}.
CallLinkUrl ==
    /\ ret' = Called("link_url", link_url(args))
    /\ UNCHANGED <<_child_blocks, constructed, installed, request, site,
                   features, args, threads>>

InitLink ==
    /\ _child_blocks = <<>>
    /\ constructed = <<>>
    /\ installed = FALSE
    /\ request = "None"
    /\ site = "None"
    /\ features = NoFeatures
    /\ ret = [op |-> "none", current |-> FALSE, out |-> NoOutcome, seq |-> "first"]
    /\ args = EmptyLink
    /\ threads = NoThreads

NextLink ==
    \/ \E page \in {<<>>} \cup {<<p>> : p \in Pages} : ChoosePage(page)
    \/ \E document \in {<<>>} \cup {<<d>> : d \in Documents} : ChooseDocument(document)
    \/ \E url \in Urls : EnterUrl(url)
    \/ CallLinkUrl

SpecLink == InitLink /\ [][NextLink]_vars

-----------------------------------------------------------------------------
(* utils.get_block_tuple over the block classes.                            *)

\* Block classes of Wagtail that do not mix in BlockTupleMixin: they have
\* neither get_block_tuple() nor get_block_machine_name().
PlainClasses == {"RichTextBlock", "CharBlock", "ImageChooserBlock"}

\* cls(): a new instance of a class of Wagtail.
NewPlainBlock(cls) == Block(cls, "", <<>>, "")

\* fishblocks.utils.get_block_tuple(block_inst): hasattr in place of
\* try/except.
fishblocks_get_block_tuple(block_inst) ==
    IF block_inst.override # "" THEN <<block_inst.override, block_inst>>
    ELSE <<block_inst.cls, block_inst>>

\* get_block_tuple(cls()) is evaluated, with the utility of one of the two
\* modules; for a class with BlockTupleMixin, cls.get_block_machine_name()
\* is evaluated too.
CallGetBlockTuple(module, cls) ==
    LET block_inst == IF cls \in PlainClasses THEN NewPlainBlock(cls) ELSE NewBlock(cls)
    IN /\ args' = [module |-> module, cls |-> cls, block_inst |-> block_inst,
                   machine_name |-> IF cls \in PlainClasses THEN <<>>
                                    ELSE <<get_block_machine_name(cls)>>]
       /\ ret' = Called("get_block_tuple",
                        Return("tuple", IF module = "jetstream"
                                        THEN get_block_tuple(block_inst)
                                        ELSE fishblocks_get_block_tuple(block_inst)))
       /\ UNCHANGED <<_child_blocks, constructed, installed, request, site,
                      features, threads>>

InitTuple ==
    /\ _child_blocks = <<>>
    /\ constructed = <<>>
    /\ installed = FALSE
    /\ request = "None"
    /\ site = "None"
    /\ features = NoFeatures
    /\ ret = [op |-> "none", current |-> FALSE, out |-> NoOutcome, seq |-> "first"]
    /\ args = NoArgs
    /\ threads = NoThreads

NextTuple ==
    \E module \in {"jetstream", "fishblocks"} :
        \E cls \in PlainClasses \cup DOMAIN Classes : CallGetBlockTuple(module, cls)

SpecTuple == InitTuple /\ [][NextTuple]_vars

-----------------------------------------------------------------------------
(* image_dimensions (templatetags/jetstream_tags.py) over a                 *)
(* DimensionsOptionsBlock value and the dimensions of the parent layout.    *)

\* The values of a block's fixed_dimensions: None for a block without the
\* field, or the DimensionsOptionsBlock value.
FixedDimensions ==
    {<<>>} \cup
    {<<[use |-> use, width |-> width, height |-> height]>> :
        use \in BOOLEAN, width \in {200, 334}, height \in {200, 350}}

\* The width and the height that the template passes for the parent: None
\* outside a layout block, the layout's column width and fixed_height inside.
ParentWidths == {<<>>, <<570>>}

ParentHeights == {<<>>, <<0>>, <<250>>}

default_width == 600

default_height == 400

\* image_dimensions(fixed_dimensions, parent_width, parent_height)
image_dimensions(fixed_dimensions, parent_width, parent_height) ==
    IF fixed_dimensions # <<>> /\ fixed_dimensions[1].use
    THEN Return("dict", [width |-> <<fixed_dimensions[1].width>>,
                         height |-> <<fixed_dimensions[1].height>>])
    ELSE IF parent_height # <<>> /\ parent_height # <<0>>
    THEN Return("dict", [width |-> parent_width, height |-> parent_height])
    ELSE Return("dict", [width |-> <<default_width>>, height |-> <<default_height>>])

\* A template evaluates {% image_dimensions ... as dimensions %}.
CallImageDimensions(fixed_dimensions, parent_width, parent_height) ==
    /\ args' = [fixed_dimensions |-> fixed_dimensions, parent_width |-> parent_width,
                parent_height |-> parent_height]
    /\ ret' = Called("image_dimensions",
                     image_dimensions(fixed_dimensions, parent_width, parent_height))
    /\ UNCHANGED <<_child_blocks, constructed, installed, request, site,
                   features, threads>>

InitDimensions ==
    /\ _child_blocks = <<>>
    /\ constructed = <<>>
    /\ installed = FALSE
    /\ request = "None"
    /\ site = "None"
    /\ features = NoFeatures
    /\ ret = [op |-> "none", current |-> FALSE, out |-> NoOutcome, seq |-> "first"]
    /\ args = NoArgs
    /\ threads = NoThreads

NextDimensions ==
    \E fixed_dimensions \in FixedDimensions, parent_width \in ParentWidths,
       parent_height \in ParentHeights :
        CallImageDimensions(fixed_dimensions, parent_width, parent_height)

SpecDimensions == InitDimensions /\ [][NextDimensions]_vars

-----------------------------------------------------------------------------
(* The image tags: parse_image_tag and the render of the nodes it builds.   *)
(*                                                                         *)
(* A bit of the tag is the sequence of its lexemes, "=" being a lexeme of  *)
(* its own: alt="x" is <<"alt", "=", "\"x\"">>.                            *)

\* The largest number of bits written after the dimension arguments.
MaxLeftovers == 3

\* The bits an author writes after the dimension arguments.
LeftoverBits ==
    {<<"as">>, <<"img">>, <<"alt", "=", "\"x\"">>, <<"class", "=", "css">>,
     <<"a", "=", "b", "=", "c">>}

\* The mode argument as written, with its quotes.
ModeBits == {<<"'", "width", "'">>, <<"\"", "height", "\"">>, <<"'", "fill", "'">>}

\* bit.strip("\"\'")
RECURSIVE StripQuotes(_)
StripQuotes(bit) ==
    IF bit # <<>> /\ Head(bit) \in {DQ, SQ} THEN StripQuotes(Tail(bit))
    ELSE IF bit # <<>> /\ bit[Len(bit)] \in {DQ, SQ}
    THEN StripQuotes(SubSeq(bit, 1, Len(bit) - 1))
    ELSE bit

\* bit.split('=')
RECURSIVE SplitEquals(_)
SplitEquals(bit) ==
    LET k == First(bit, {"="})
    IN IF k > Len(bit) THEN <<bit>>
       ELSE <<SubSeq(bit, 1, k - 1)>> \o SplitEquals(From(bit, k + 1))

\* parser.compile_filter(bit): a FilterExpression over the bit.
compile_filter(bit) == [token |-> bit]

\* attrs[name] = expression
SetAttr(attrs, name, expression) ==
    IF \E k \in 1..Len(attrs) : attrs[k].name = name
    THEN [k \in 1..Len(attrs) |->
             IF attrs[k].name = name THEN [name |-> name, expression |-> expression]
             ELSE attrs[k]]
    ELSE Append(attrs, [name |-> name, expression |-> expression])

\* The loop over the leftovers: the state of the parse after them, raised
\* being set when a bit that should be an attribute does not split in two.
RECURSIVE ParseLeftovers(_, _)
ParseLeftovers(leftovers, state) ==
    IF leftovers = <<>> \/ state.raised THEN state
    ELSE LET bit == Head(leftovers)
             parts == SplitEquals(bit)
         IN ParseLeftovers(
                Tail(leftovers),
                IF bit = <<"as">> THEN [state EXCEPT !.as_context = TRUE]
                ELSE IF state.as_context
                THEN IF state.output_var_name = <<>>
                     THEN [state EXCEPT !.output_var_name = <<bit>>]
                     ELSE [state EXCEPT !.is_valid = FALSE]
                ELSE IF Len(parts) = 2
                THEN [state EXCEPT !.attrs = SetAttr(@, parts[1], compile_filter(parts[2]))]
                ELSE [state EXCEPT !.raised = TRUE])

\* The node classes of the two tags.
NodeClass == ("arbitrary_image" :> "ArbitraryImageNode") @@
             ("responsive_image" :> "ResponsiveImageNode")

\* parse_image_tag(tag_name, parser, token, node_class), bits being
\* token.split_contents()[1:].
parse_image_tag(tag_name, bits, node_class) ==
    LET mode_string == StripQuotes(bits[2])
        leftovers == IF mode_string \in {<<"width">>, <<"height">>}
                     THEN From(bits, 4) ELSE From(bits, 5)
        end == ParseLeftovers(leftovers,
                              [attrs |-> <<>>, output_var_name |-> <<>>,
                               as_context |-> FALSE, is_valid |-> TRUE,
                               raised |-> FALSE])
    IN IF \/ end.raised
          \/ ~end.is_valid
          \/ (end.as_context /\ end.output_var_name = <<>>)
          \/ (end.output_var_name # <<>> /\ end.attrs # <<>>)
       THEN Raise("TemplateSyntaxError", <<tag_name>>)
       ELSE Return(node_class,
                   [image_expr |-> <<compile_filter(bits[1])>>,
                    mode_expr |-> <<compile_filter(bits[2])>>,
                    width_expr |-> IF mode_string = <<"height">> THEN <<>>
                                   ELSE <<compile_filter(bits[3])>>,
                    height_expr |-> IF mode_string = <<"width">> THEN <<>>
                                    ELSE IF mode_string = <<"height">>
                                    THEN <<compile_filter(bits[3])>>
                                    ELSE <<compile_filter(bits[4])>>,
                    output_var_name |-> end.output_var_name,
                    attrs |-> end.attrs])

\* node.render(context), image being what image_expr resolves to: what the
\* tag outputs and the context variable it sets, if any.
render_node(node_class, node, image) ==
    IF image \in {"VariableDoesNotExist", "None"}
    THEN Return("str", [output |-> "", context_var |-> <<>>, attrs |-> <<>>])
    ELSE IF node_class = "ArbitraryImageNode"
    THEN IF node.output_var_name # <<>>
         THEN Return("str", [output |-> "", context_var |-> node.output_var_name,
                             attrs |-> <<>>])
         ELSE Return("str", [output |-> "img_tag", context_var |-> <<>>,
                             attrs |-> node.attrs])
    ELSE Return("str", [output |-> "picture", context_var |-> <<>>,
                        attrs |-> node.attrs])

\* The tag as the template's author has written it so far.
TagWritten(tag_name, mode, leftovers) ==
    [tag_name |-> tag_name, mode |-> mode, leftovers |-> leftovers,
     bits |-> <<<<"self.image">>, mode>> \o
              (IF StripQuotes(mode) \in {<<"width">>, <<"height">>}
               THEN <<<<"320">>>> ELSE <<<<"320">>, <<"200">>>>) \o
              leftovers,
     node |-> <<>>]

\* The author writes one more bit at the end of the tag.
WriteBit(bit) ==
    /\ Len(args.leftovers) < MaxLeftovers
    /\ args' = TagWritten(args.tag_name, args.mode, Append(args.leftovers, bit))
    /\ ret' = Outdated
    /\ UNCHANGED <<_child_blocks, constructed, installed, request, site,
                   features, threads>>

\* The template is compiled: the tag function of the tag parses it.
ParseTag ==
    LET out == parse_image_tag(args.tag_name, args.bits, NodeClass[args.tag_name])
    IN /\ ret' = Called("parse_image_tag", out)
       /\ args' = [args EXCEPT !.node = IF out.kind = "return" THEN <<out.value>> ELSE <<>>]
       /\ UNCHANGED <<_child_blocks, constructed, installed, request, site,
                      features, threads>>

\* The compiled template is rendered: the node of the tag renders.
RenderTag(image) ==
    /\ args.node # <<>>
    /\ ret' = Called("render", render_node(NodeClass[args.tag_name], args.node[1], image))
    /\ UNCHANGED <<_child_blocks, constructed, installed, request, site,
                   features, args, threads>>

InitImageTag ==
    /\ _child_blocks = <<>>
    /\ constructed = <<>>
    /\ installed = FALSE
    /\ request = "None"
    /\ site = "None"
    /\ features = NoFeatures
    /\ ret = [op |-> "none", current |-> FALSE, out |-> NoOutcome, seq |-> "first"]
    /\ \E tag_name \in DOMAIN NodeClass, mode \in ModeBits :
           args = TagWritten(tag_name, mode, <<>>)
    /\ threads = NoThreads

NextImageTag ==
    \/ \E bit \in LeftoverBits : WriteBit(bit)
    \/ ParseTag
    \/ \E image \in {"image", "None", "VariableDoesNotExist"} : RenderTag(image)

SpecImageTag == InitImageTag /\ [][NextImageTag]_vars

-----------------------------------------------------------------------------
(* The responsive video tag: video_aspect_ratio and the wrapper classes.   *)

\* The width and the height an embed finder reports, <<>> being None.
EmbedWidths == {<<>>, <<0>>, <<200>>, <<300>>, <<480>>, <<640>>, <<1680>>}
EmbedHeights == {<<>>, <<0>>, <<200>>, <<320>>, <<360>>, <<720>>}

\* The providers whose embeds the tag distinguishes, and one it does not.
Providers == {"YouTube", "Vimeo", "Facebook", "Other"}

\* video_aspect_ratio(video): width / height is a true division, so the
\* ratio is compared by cross-multiplying.
video_aspect_ratio(video) ==
    IF video.height # <<>> /\ video.height[1] # 0 /\ video.width # <<>> /\ video.width[1] # 0
    THEN LET width == video.width[1]
             height == video.height[1]
         IN IF width <= height THEN "1by1"
            ELSE IF 2 * width < 3 * height THEN "4by3"
            ELSE IF width > 2 * height THEN "21x9"
            ELSE "16by9"
    ELSE "16by9"

\* The wrapper classes responsive_video puts around the embed's html, or ''
\* when the embed cannot be found.
responsive_video(embed) ==
    IF embed.found
    THEN Return("str",
                <<"embed-responsive", <<"embed-responsive-", video_aspect_ratio(embed)>>>> \o
                (IF embed.provider_name = "Facebook"
                 THEN <<"embed-responsive--facebook">> ELSE <<>>))
    ELSE Return("str", <<>>)

\* video_aspect_ratio is called with an embed.
CallVideoAspectRatio(width, height) ==
    /\ args' = [found |-> TRUE, provider_name |-> args.provider_name,
                width |-> width, height |-> height]
    /\ ret' = Called("video_aspect_ratio", Return("str", video_aspect_ratio(args')))
    /\ UNCHANGED <<_child_blocks, constructed, installed, request, site,
                   features, threads>>

\* A template renders the responsive_video tag for a video url.
CallResponsiveVideo(found, provider_name) ==
    /\ args' = [args EXCEPT !.found = found, !.provider_name = provider_name]
    /\ ret' = Called("responsive_video", responsive_video(args'))
    /\ UNCHANGED <<_child_blocks, constructed, installed, request, site,
                   features, threads>>

InitVideo ==
    /\ _child_blocks = <<>>
    /\ constructed = <<>>
    /\ installed = FALSE
    /\ request = "None"
    /\ site = "None"
    /\ features = NoFeatures
    /\ ret = [op |-> "none", current |-> FALSE, out |-> NoOutcome, seq |-> "first"]
    /\ args = [found |-> TRUE, provider_name |-> "YouTube", width |-> <<>>, height |-> <<>>]
    /\ threads = NoThreads

NextVideo ==
    \/ \E width \in EmbedWidths, height \in EmbedHeights :
           CallVideoAspectRatio(width, height)
    \/ \E found \in BOOLEAN, provider_name \in Providers :
           CallResponsiveVideo(found, provider_name)

SpecVideo == InitVideo /\ [][NextVideo]_vars

-----------------------------------------------------------------------------
(* Properties.  ret.current says that the context has not changed since the *)
(* call on record, so the state variables are the context of that call.    *)

\* The call on record is a call of op in the present context.
Returned(op) == ret.current /\ ret.op = op

\* The site lookup of the present context fails with an AttributeError.
LookupFails == request # "None" /\ (site = "None" \/ ~installed)

\* A features record is in effect in the present context.
RegistryBound == request # "None" /\ site # "None" /\ installed /\ features.exists

\* The base entries the present context leaves visible.
VisibleEntries ==
    {_child_blocks[i] : i \in {j \in 1..Len(_child_blocks) :
        RegistryBound => _child_blocks[j].key \in features.enabled}}

\* The position of a base entry in the base set.
BasePosition(entry) == CHOOSE p \in 1..Len(_child_blocks) : _child_blocks[p] = entry

Range(seq) == {seq[i] : i \in 1..Len(seq)}

\* C1: whatever the context, every (name, block) entry of the mapping that
\* child_blocks returns is an entry of the base set _child_blocks.
C1_VisibleSubsetOfBase ==
    (Returned("child_blocks") /\ ret.out.kind = "return")
        => Range(ret.out.value) \subseteq Range(_child_blocks)

\* child_blocks has filtered a base set of three down to a proper, non-empty part.
C1_Witness ==
    /\ Returned("child_blocks") /\ ret.out.kind = "return"
    /\ Len(_child_blocks) = 3
    /\ Len(ret.out.value) \in {1, 2}

\* C2: with a request bound to a site that has a features record, child_blocks
\* returns exactly the base entries whose key is enabled, in declaration
\* order; with every key disabled it returns nothing.
C2_ExactlyEnabledInOrder ==
    (Returned("child_blocks") /\ RegistryBound) =>
        /\ ret.out.kind = "return"
        /\ Range(ret.out.value) =
               {e \in Range(_child_blocks) : e.key \in features.enabled}
        /\ \A i, j \in 1..Len(ret.out.value) :
               i < j => BasePosition(ret.out.value[i]) < BasePosition(ret.out.value[j])
        /\ (features.enabled = {} => ret.out.value = <<>>)

\* The first and the last of three children are enabled, the middle one is not.
C2_Witness ==
    /\ Returned("child_blocks") /\ RegistryBound
    /\ Len(_child_blocks) = 3
    /\ features.enabled = {_child_blocks[1].key, _child_blocks[3].key}
    /\ ret.out.value = <<_child_blocks[1], _child_blocks[3]>>

\* C3: with no request bound, child_blocks returns the base set itself, entry
\* for entry and in the same order, and does not raise.
C3_NoRequestReturnsBase ==
    (Returned("child_blocks") /\ request = "None")
        => ret.out = Return("OrderedDict", _child_blocks)

\* child_blocks was read outside a request, of a container with children.
C3_Witness ==
    /\ Returned("child_blocks") /\ request = "None"
    /\ Len(_child_blocks) >= 2
    /\ ret.out.kind = "return"

\* C4: with a request bound to a site but no feature registry configured for
\* it (no features record, or the features package not installed),
\* child_blocks returns the unfiltered base set and does not raise.
C4_NoRegistryFailsOpen ==
    (Returned("child_blocks") /\ request # "None" /\ site # "None"
        /\ (~installed \/ ~features.exists))
        => ret.out = Return("OrderedDict", _child_blocks)

\* C5: with a request bound for which no site is found, child_blocks and
\* dependencies return the unfiltered base set and raise nothing.
C5_NoSiteFailsOpen ==
    (ret.current /\ ret.op \in {"child_blocks", "dependencies"}
        /\ request # "None" /\ site = "None")
        => (ret.out.kind = "return" /\ ret.out.value = _child_blocks)

\* C6: no sequence of child_blocks, dependencies and sorted_child_blocks calls,
\* in whatever contexts and whether or not they raise, changes the membership
\* or the order of the base set.
C6_BaseNeverMutated == _child_blocks = constructed

\* sorted_child_blocks has raised UnknownBlockGroupError on a base set that is
\* not in sorted order.
C6_Witness ==
    /\ Returned("sorted_child_blocks")
    /\ ret.out.exc = "UnknownBlockGroupError"
    /\ Len(_child_blocks) = 3
    /\ StrLess(_child_blocks[3].block.label, _child_blocks[1].block.label)

\* C7: an access to child_blocks or sorted_child_blocks made after the context
\* changed reflects the context of that access: it raises AttributeError
\* exactly when the site lookup now fails, and what it returns consists of
\* exactly the children now visible.
C7_NeverCached ==
    (ret.current /\ ret.seq = "changed"
        /\ ret.op \in {"child_blocks", "sorted_child_blocks"}) =>
        /\ (ret.out.exc = "AttributeError") <=> LookupFails
        /\ (ret.out.kind = "return" /\ ret.op = "child_blocks")
               => Range(ret.out.value) = VisibleEntries
        /\ (ret.out.kind = "return" /\ ret.op = "sorted_child_blocks")
               => Range(ret.out.value) = {e.block : e \in VisibleEntries}

\* A second access to child_blocks, after the registry changed, returns a
\* proper part of the base set.
C7_Witness ==
    /\ Returned("child_blocks") /\ ret.seq = "changed"
    /\ RegistryBound
    /\ Len(_child_blocks) = 3
    /\ Len(ret.out.value) = 1

\* C8: a repeat of child_blocks, dependencies or sorted_child_blocks in an
\* unchanged context has the same outcome as the call before it.
C8_Idempotent == ret.seq # "repeat_differs"

\* sorted_child_blocks has been repeated in an unchanged context and returned
\* the same list of three.
C8_Witness ==
    /\ Returned("sorted_child_blocks") /\ ret.seq = "repeat_same"
    /\ ret.out.kind = "return"
    /\ Len(ret.out.value) = 3

\* C9 as stated: in the list sorted_child_blocks returns, two children of
\* different groups are ordered by group rank, and of two children of the
\* same group A precedes B iff A.label < B.label.
C9_SortingLawAsStated ==
    (Returned("sorted_child_blocks") /\ ret.out.kind = "return") =>
        \A i, j \in 1..Len(ret.out.value) : i # j =>
            LET A == ret.out.value[i]
                B == ret.out.value[j]
            IN IF A.group # B.group
               THEN (i < j) <=> (GROUP_SORT_VALUES[A.group] < GROUP_SORT_VALUES[B.group])
               ELSE (i < j) <=> StrLess(A.label, B.label)

\* C9, amended: in the list sorted_child_blocks returns, two children of
\* different groups are ordered by group rank, and of two children of the
\* same group with different labels A precedes B iff A.label < B.label.
C9_SortingLaw ==
    (Returned("sorted_child_blocks") /\ ret.out.kind = "return") =>
        \A i, j \in 1..Len(ret.out.value) : i # j =>
            LET A == ret.out.value[i]
                B == ret.out.value[j]
            IN IF A.group # B.group
               THEN (i < j) <=> (GROUP_SORT_VALUES[A.group] < GROUP_SORT_VALUES[B.group])
               ELSE A.label # B.label => ((i < j) <=> StrLess(A.label, B.label))

\* Children declared as Basic/'Zed', Basic/'Alpha', Multimedia/'Anything' come
\* out in the order 'Alpha', 'Zed', 'Anything'.
C9_Witness ==
    /\ Returned("sorted_child_blocks") /\ ret.out.kind = "return"
    /\ [i \in 1..Len(_child_blocks) |-> _child_blocks[i].key] = <<"A", "B", "C">>
    /\ [i \in 1..Len(ret.out.value) |-> ret.out.value[i].name] = <<"B", "A", "C">>

\* C10: when a visible child's group is not a key of GROUP_SORT_VALUES,
\* sorted_child_blocks raises UnknownBlockGroupError with a message that
\* contains such a group, and returns no list.
C10_UnknownGroupRaises ==
    (Returned("sorted_child_blocks") /\ ~LookupFails
        /\ \E e \in VisibleEntries : e.block.group \notin DOMAIN GROUP_SORT_VALUES) =>
        /\ ret.out.kind = "raise"
        /\ ret.out.exc = "UnknownBlockGroupError"
        /\ ret.out.value = <<>>
        /\ \E e \in VisibleEntries :
               /\ e.block.group \notin DOMAIN GROUP_SORT_VALUES
               /\ \E k \in 1..Len(ret.out.message) : ret.out.message[k] = e.block.group

\* sorted_child_blocks met a child of the unknown group among three visible
\* children of a registry-filtered container.
C10_Witness ==
    /\ Returned("sorted_child_blocks") /\ RegistryBound
    /\ Cardinality(VisibleEntries) = 3
    /\ \E e \in VisibleEntries : e.block.group = "Bogus"
    /\ ret.out.exc = "UnknownBlockGroupError"

-----------------------------------------------------------------------------
(* Properties of the schema, under SpecSchema.  args is the declaration of  *)
(* the container in _child_blocks.                                         *)

\* cls is root or is derived from it.
RECURSIVE Descends(_, _)
Descends(cls, root) ==
    \/ cls = root
    \/ /\ Classes[cls].base # "BlockTupleMixin"
       /\ Descends(Classes[cls].base, root)

FullForms == {"BaseTwoColumnBlock", "BaseThreeColumnBlock"}

SubForms == {"BaseTwoColumnSubBlock", "BaseThreeColumnSubBlock"}

\* The full form and the sub form of each layout type that has both.
FormPairs ==
    {<<"BaseTwoColumnBlock", "BaseTwoColumnSubBlock">>,
     <<"BaseThreeColumnBlock", "BaseThreeColumnSubBlock">>}

IsFullForm(cls) == \E full \in FullForms : Descends(cls, full)

IsSubForm(cls) == \E sub \in SubForms : Descends(cls, sub)

\* The machine names of the layout blocks.
LayoutNames ==
    {"two_column_layout", "three_column_layout", "four_column_layout",
     "BaseSidebarLayoutBlock"}

\* An entry of a child set that is a layout block, by class or by name.
IsLayoutEntry(entry) ==
    entry.key \in LayoutNames \/ entry.block.cls \in LayoutClasses

\* Two of the declared children have the same name.
DuplicateDeclared ==
    \E j \in 1..Len(args.local_blocks) :
        \/ args.local_blocks[j][1] \in Keys(args.base_blocks)
        \/ \E i \in 1..(j - 1) : args.local_blocks[i][1] = args.local_blocks[j][1]

\* C11: when a stream is declared over a class derived from the full form
\* and a class derived from the sub form of the same layout type, the two
\* classes resolve to the same machine name, both through
\* get_block_machine_name() and through get_block_tuple().
C11_FormsShareMachineName ==
    args.kind = "stream" =>
        \A i, j \in 1..Len(args.classes) : \A pair \in FormPairs :
            (Descends(args.classes[i], pair[1]) /\ Descends(args.classes[j], pair[2]))
            => /\ args.machine_names[i] = args.machine_names[j]
               /\ args.local_blocks[i][1] = args.local_blocks[j][1]

\* A stream declared over a renamed subclass of a full form and the sub form.
C11_Witness ==
    /\ args.kind = "stream"
    /\ args.classes = <<"ThreeColumnBlock", "BaseThreeColumnSubBlock">>
    /\ args.machine_names = <<"three_column_layout", "three_column_layout">>
    /\ Keys(_child_blocks) = {"three_column_layout"}

\* C12: every column of a full-form layout block permits the sub form of
\* every layout type that has one.
C12_FullFormPermitsSubForms ==
    (args.kind = "column" /\ IsFullForm(args.classes[1])) =>
        \A sub \in SubForms :
            \E i \in 1..Len(_child_blocks) : Descends(_child_blocks[i].block.cls, sub)

\* C13: a column of a sub-form layout block permits no layout block, and
\* offers none in any context; and a layout block that a column permits has
\* itself no column that permits a layout block.
C13_SubFormPermitsNoLayout ==
    args.kind = "column" =>
        /\ IsSubForm(args.classes[1]) =>
              /\ \A i \in 1..Len(_child_blocks) : ~IsLayoutEntry(_child_blocks[i])
              /\ (Returned("child_blocks") /\ ret.out.kind = "return") =>
                     \A i \in 1..Len(ret.out.value) : ~IsLayoutEntry(ret.out.value[i])
        /\ \A i \in 1..Len(_child_blocks) :
              LET child == _child_blocks[i].block.cls
              IN child \in LayoutClasses =>
                     \A column \in Classes[child].columns :
                         \A k \in 1..Len(ColumnBlocks(child, column)) :
                             ColumnBlocks(child, column)[k][2].cls \notin LayoutClasses

\* The children of a sub form's column are resolved while the site's
\* features disable one of them.
C13_Witness ==
    /\ args.kind = "column"
    /\ args.classes = <<"ThreeColumnSubBlock">>
    /\ args.column = "middle_column"
    /\ Returned("child_blocks")
    /\ ret.out.kind = "return"
    /\ Len(ret.out.value) + 1 = Len(_child_blocks)

\* C14: a constructor that is given two children of the same name raises.
C14_DuplicateNameRaises ==
    (args.kind = "stream" /\ DuplicateDeclared /\ Returned("__init__")) =>
        ret.out.kind = "raise"

-----------------------------------------------------------------------------
(* Properties of render, under SpecRender.  args is the call on record.    *)

\* The style keys that a block declares.
DeclaredStyles(block) ==
    CASE block = "ImagePanelBlock" ->
             {"link", "captioned", "rollover", "separate_text",
              "separate_text_natural", "image_listing_left", "image_listing_right"}
      [] block = "ImageGalleryBlock" -> {"gallery", "slider"}
      [] block = "SectionTitleBlock" -> {"section_divider", "block_header"}

\* The STYLES tuples of a block that lists its styles as tuples.
StylesTable(block) ==
    IF block = "ImagePanelBlock" THEN ImagePanelBlock_STYLES
    ELSE ImageGalleryBlock_STYLES

\* C15: a render of a value whose style is none of the block's declared
\* styles, or that has no style, returns what render_basic returns: no
\* template is chosen, no extra classes are set, nothing is raised.
C15_UnknownStyleFallsBack ==
    (Returned("render") /\
     (args.value.style = <<>> \/ args.value.style[1] \notin DeclaredStyles(args.block)))
    => /\ ret.out.kind = "return"
       /\ ret.out.value.via = "render_basic"
       /\ ret.out.value.template = ""
       /\ ret.out.value.extra_classes = <<>>
       /\ ret.out.value.parent_context = args.context

\* A SectionTitleBlock value is rendered whose style another block declares.
C15_Witness ==
    /\ Returned("render")
    /\ args.block = "SectionTitleBlock"
    /\ args.value.style = <<"gallery">>
    /\ ret.out.value.via = "render_basic"

\* C16: a render of an ImagePanelBlock or ImageGalleryBlock value with a
\* declared style hands the renderer the template of that style's STYLES
\* tuple and the tuple's extra classes joined by spaces, whatever the other
\* fields and the context are.
C16_StyleSelectsTemplate ==
    (Returned("render") /\ args.block \in {"ImagePanelBlock", "ImageGalleryBlock"} /\
     args.value.style # <<>> /\ args.value.style[1] \in DeclaredStyles(args.block))
    => /\ ret.out.kind = "return"
       /\ ret.out.value.via = "render_to_string"
       /\ \E i \in 1..Len(StylesTable(args.block)) :
              /\ StylesTable(args.block)[i][1] = args.value.style[1]
              /\ ret.out.value.template = StylesTable(args.block)[i][3]
              /\ ret.out.value.extra_classes =
                     <<Join(" ", StylesTable(args.block)[i][4])>>
       /\ args.value.style = <<"separate_text">> =>
              /\ ret.out.value.template = "jetstream/blocks/image_panel_block-card.html"
              /\ ret.out.value.extra_classes = << <<"equal">> >>
       /\ args.value.style = <<"image_listing_right">> =>
              /\ ret.out.value.template = "jetstream/blocks/image_panel_block-listing.html"
              /\ ret.out.value.extra_classes = << <<"right">> >>

\* An ImagePanelBlock value of style image_listing_right is rendered.
C16_Witness ==
    /\ Returned("render")
    /\ args.block = "ImagePanelBlock"
    /\ args.value.style = <<"image_listing_right">>
    /\ args.value.display_caption = <<TRUE>>
    /\ ret.out.value.extra_classes = << <<"right">> >>

-----------------------------------------------------------------------------
(* Properties of IFrameBlock.clean, under SpecClean.  args is the field    *)
(* that was submitted.                                                     *)

\* The iframe element of the markup that clean returned, parsed again.
Reparsed == find_iframe(ret.out.value)

\* The names of the attributes of a parsed element.
AttrNames(element) == {element.attrs[k].name : k \in 1..Len(element.attrs)}

\* The attributes listed as permitted through cleaning.
AllowList ==
    {"allowfullscreen", "height", "width", "name", "referrerpolicy", "sandbox",
     "src", "title", "frameborder"}

\* C17: a submitted value that holds no iframe element is answered by a
\* ValidationError; clean returns nothing for it.
C17_NoIframeRaises ==
    (Returned("clean") /\ ~args.iframe) =>
        /\ ret.out.kind = "raise"
        /\ ret.out.exc = "ValidationError"

\* A value that holds the text of an iframe tag, escaped, but no element.
C17_Witness ==
    /\ Returned("clean")
    /\ ~args.iframe
    /\ args.value = <<"&lt;iframe&gt;", "hi">>
    /\ ret.out.kind = "raise"

\* C18: the iframe tag that clean returns, parsed again, has no attribute
\* outside the allow-list, the scrolling attribute that clean itself appends
\* apart, whatever the submitted attribute values hold.
C18_OnlyAllowedAttributes ==
    (Returned("clean") /\ ret.out.kind = "return") =>
        /\ Reparsed.found
        /\ AttrNames(Reparsed) \subseteq AllowList \cup {"scrolling"}

\* C19: <iframe src="https://x" onclick="evil()"><script>bad</script>hi</iframe>
\* is cleaned to one iframe tag that keeps src, has no onclick, and whose
\* content is the text hi alone.
C19_ExampleRoundTrip ==
    (Returned("clean") /\
     args.value = <<"<iframe", " ", "src", "=", DQ, "https://x", DQ,
                    " ", "onclick", "=", DQ, "evil()", DQ, ">",
                    "<script>", "bad", "</script>", "hi", "</iframe>">>)
    => /\ ret.out.kind = "return"
       /\ Reparsed.found
       /\ "src" \in AttrNames(Reparsed)
       /\ AttrNames(Reparsed) \subseteq {"src", "scrolling"}
       /\ Reparsed.contents = <<<<"hi">>>>

-----------------------------------------------------------------------------
(* Properties of concurrent resolutions, under SpecConcurrent.             *)

\* What child_blocks returns under a context when nothing else runs.
ResolvedAlone(context) ==
    IF context.request = "None" THEN Return("OrderedDict", constructed)
    ELSE IF context.site = "None" \/ ~installed
    THEN Raise("AttributeError", <<"features">>)
    ELSE IF ~context.features.exists THEN Return("OrderedDict", constructed)
    ELSE Return("OrderedDict",
                SelectSeq(constructed, LAMBDA item : item.key \in context.features.enabled))

\* C20: whatever the interleaving, a thread that has returned from
\* child_blocks holds what it would have got alone under its own context,
\* and the shared base child set is as constructed.
C20_ConcurrentResolutionsIndependent ==
    /\ _child_blocks = constructed
    /\ \A t \in Threads :
           threads[t].pc = "done" => threads[t].out = ResolvedAlone(threads[t].context)

\* Two threads whose sites enable different features have overlapped each
\* other inside child_blocks and have returned different child sets.
C20_Witness ==
    /\ \A t \in Threads :
           /\ threads[t].pc = "done"
           /\ threads[t].overlapped
           /\ threads[t].context.features.exists
           /\ threads[t].out.kind = "return"
    /\ threads["t1"].context.features.enabled # threads["t2"].context.features.enabled
    /\ threads["t1"].out.value # threads["t2"].out.value
    /\ Len(threads["t1"].out.value) < Len(_child_blocks)

-----------------------------------------------------------------------------
(* Properties of link_url, under SpecLink.  args is the LinkBlock value.   *)

\* C21: link_url returns the path of the page when a page is chosen, else
\* the url of the document when a document is chosen, else the url when it
\* is not empty, else None.
C21_PageThenDocumentThenUrl ==
    Returned("link_url") =>
        /\ ret.out.kind = "return"
        /\ IF args.page # <<>>
           THEN \E parts \in {p \in {args.page[1].url_parts} : p # <<>>} :
                    ret.out.value = <<parts[1][3]>>
           ELSE IF args.document # <<>>
           THEN ret.out.value = <<args.document[1].url>>
           ELSE IF args.url # <<>> /\ args.url # <<"">>
           THEN ret.out.value = args.url
           ELSE ret.out.value = <<>>

-----------------------------------------------------------------------------
(* Properties of get_block_tuple, under SpecTuple.                         *)

\* The machine name that a class declares: the legacy name of the layout
\* block it is or derives from, its class name otherwise.
DeclaredName(cls) ==
    IF cls \in PlainClasses THEN cls
    ELSE IF Descends(cls, "BaseTwoColumnBlock") \/ Descends(cls, "BaseTwoColumnSubBlock")
    THEN "two_column_layout"
    ELSE IF Descends(cls, "BaseThreeColumnBlock") \/ Descends(cls, "BaseThreeColumnSubBlock")
    THEN "three_column_layout"
    ELSE IF Descends(cls, "BaseFourColumnBlock") THEN "four_column_layout"
    ELSE cls

-----------------------------------------------------------------------------
(* Properties of image_dimensions, under SpecDimensions.                   *)

\* C23: a block with fixed dimensions gets its own width and height when
\* the box is checked or when no parent height is supplied, and the parent's
\* width and height otherwise.
C23_OwnDimensionsUnlessInLayout ==
    (Returned("image_dimensions") /\ args.fixed_dimensions # <<>>) =>
        IF args.fixed_dimensions[1].use \/ args.parent_height = <<>>
        THEN ret.out.value = [width |-> <<args.fixed_dimensions[1].width>>,
                              height |-> <<args.fixed_dimensions[1].height>>]
        ELSE ret.out.value = [width |-> args.parent_width,
                              height |-> args.parent_height]
-----------------------------------------------------------------------------
(* Properties of the image tags.                                           *)

\* The bit is one name and one value around a single '='.
IsAttribute(bit) ==
    /\ Len(bit) >= 3
    /\ \E k \in 2..(Len(bit) - 1) :
           /\ bit[k] = "="
           /\ \A j \in 1..Len(bit) : j # k => bit[j] # "="

\* The leftovers are zero or more name=value attributes.
AttributesForm(leftovers) == \A k \in 1..Len(leftovers) : IsAttribute(leftovers[k])

\* The leftovers are exactly 'as' followed by exactly one variable name.
AsForm(leftovers) ==
    /\ Len(leftovers) = 2
    /\ leftovers[1] = <<"as">>
    /\ leftovers[2] # <<"as">>

\* C24: parse_image_tag accepts the bits after the dimension arguments when
\* they are zero or more name=value attributes or exactly 'as' and one
\* variable name, the node then carrying an entry for every attribute
\* written and the variable name, and raises TemplateSyntaxError for
\* everything else.
C24_TwoFormsOnly ==
    Returned("parse_image_tag") =>
        IF AttributesForm(args.leftovers)
        THEN /\ ret.out.kind = "return"
             /\ ret.out.value.output_var_name = <<>>
             /\ \A k \in 1..Len(args.leftovers) :
                    \E a \in 1..Len(ret.out.value.attrs) :
                        ret.out.value.attrs[a].name \o <<"=">> \o
                            ret.out.value.attrs[a].expression.token
                        = args.leftovers[k]
                    \/ \E j \in (k + 1)..Len(args.leftovers) :
                           SplitEquals(args.leftovers[j])[1] = SplitEquals(args.leftovers[k])[1]
        ELSE IF AsForm(args.leftovers)
        THEN /\ ret.out.kind = "return"
             /\ ret.out.value.output_var_name = <<args.leftovers[2]>>
             /\ ret.out.value.attrs = <<>>
        ELSE /\ ret.out.kind = "raise"
             /\ ret.out.exc = "TemplateSyntaxError"

\* C25: a responsive_image tag written with 'as var_name' is rejected when
\* it is parsed, and no node of it renders without setting the variable.
C25_ResponsiveImageRejectsAs ==
    /\ (/\ Returned("parse_image_tag")
        /\ args.tag_name = "responsive_image"
        /\ \E k \in 1..Len(args.leftovers) : args.leftovers[k] = <<"as">>)
       => ret.out.kind = "raise"
    /\ (/\ Returned("render")
        /\ args.tag_name = "responsive_image"
        /\ args.node[1].output_var_name # <<>>)
       => ret.out.value.context_var = args.node[1].output_var_name
-----------------------------------------------------------------------------
(* Properties of the responsive video tag.                                 *)

\* The suffixes of Bootstrap 4's responsive embed classes.
BootstrapEmbedRatios == {"1by1", "4by3", "16by9", "21by9"}

\* C26: video_aspect_ratio returns the suffix of one of Bootstrap 4's
\* responsive embed classes: 1by1 when width/height <= 1, 4by3 when the
\* ratio is between 1 and 1.5, 16by9 when it is from 1.5 to 2, the 21:9 class
\* when it is above 2, and 16by9 when width or height is missing or zero.
C26_BootstrapEmbedClass ==
    Returned("video_aspect_ratio") =>
        /\ ret.out.value \in BootstrapEmbedRatios
        /\ ret.out.value =
               IF args.width \in {<<>>, <<0>>} \/ args.height \in {<<>>, <<0>>}
               THEN "16by9"
               ELSE IF args.width[1] <= args.height[1] THEN "1by1"
               ELSE IF 2 * args.width[1] < 3 * args.height[1] THEN "4by3"
               ELSE IF args.width[1] <= 2 * args.height[1] THEN "16by9"
               ELSE "21by9"


-----------------------------------------------------------------------------
(* Further properties of a container's views of its children.             *)

\* The visible children, where child_blocks returns them.
Visible == IF child_blocks.kind = "return" THEN DictValues(child_blocks.value) ELSE <<>>

\* The number of times block occurs in blocks.
Occurrences(block, blocks) == Cardinality({i \in 1..Len(blocks) : blocks[i] = block})

\* The visible children at i and j tie on both group and label.
Tie(i, j) == Visible[i].group = Visible[j].group /\ Visible[i].label = Visible[j].label

\* C27: the list sorted_child_blocks returns holds every visible child
\* exactly once and no other block, and visible children that tie on both
\* group and label keep their relative declaration order.
C27_PermutationStableOnTies ==
    (Returned("sorted_child_blocks") /\ ret.out.kind = "return") =>
        /\ Len(ret.out.value) = Len(Visible)
        /\ \A block \in BlockInstances \cup {ret.out.value[k] : k \in 1..Len(ret.out.value)} :
               Occurrences(block, ret.out.value) = Occurrences(block, Visible)
        /\ \A i \in 1..Len(Visible), j \in 1..Len(Visible) :
               (i < j /\ Tie(i, j)) =>
                   \E a \in 1..Len(ret.out.value), b \in 1..Len(ret.out.value) :
                       /\ a < b
                       /\ ret.out.value[a] = Visible[i]
                       /\ ret.out.value[b] = Visible[j]

\* sorted_child_blocks has returned a list for a container one of whose
\* children is filtered out and two of whose visible children tie.
C27_Witness ==
    /\ Returned("sorted_child_blocks")
    /\ ret.out.kind = "return"
    /\ Len(Visible) < Len(_child_blocks)
    /\ \E i \in 1..Len(Visible), j \in 1..Len(Visible) : i < j /\ Tie(i, j)

\* What iterating over a returned collection yields: the keys of an
\* OrderedDict, which are names, and the elements of a list, which are blocks.
Iterated(out) ==
    IF out.type = "OrderedDict"
    THEN [i \in 1..Len(out.value) |->
             [element |-> "name", name |-> out.value[i].key, block |-> <<>>]]
    ELSE [i \in 1..Len(out.value) |->
             [element |-> "block", name |-> "", block |-> <<out.value[i]>>]]

\* C28: in every context in which child_blocks returns, what dependencies
\* returns consists of exactly the block objects that are the values of
\* child_blocks, in the same order.
C28_DependenciesAreVisibleBlocks ==
    (Returned("dependencies") /\ child_blocks.kind = "return") =>
        /\ ret.out.kind = "return"
        /\ Iterated(ret.out) =
               [i \in 1..Len(Visible) |->
                   [element |-> "block", name |-> "", block |-> <<Visible[i]>>]]

\* C29: sorted_child_blocks raises UnknownBlockGroupError exactly when a
\* visible child has a group missing from GROUP_SORT_VALUES; a child the
\* registry filters out never triggers it and an empty visible set never
\* raises.
C29_RaisesIffVisibleUnknownGroup ==
    Returned("sorted_child_blocks") =>
        ((ret.out.kind = "raise" /\ ret.out.exc = "UnknownBlockGroupError")
         <=> (/\ child_blocks.kind = "return"
              /\ \E i \in 1..Len(Visible) :
                     Visible[i].group \notin DOMAIN GROUP_SORT_VALUES))

\* sorted_child_blocks has returned a list for a container whose only child
\* with an unknown group is filtered out by the registry.
C29_Witness ==
    /\ Returned("sorted_child_blocks")
    /\ ret.out.kind = "return"
    /\ Visible # <<>>
    /\ \E i \in 1..Len(_child_blocks) :
           _child_blocks[i].block.group \notin DOMAIN GROUP_SORT_VALUES

-----------------------------------------------------------------------------
(* A further property of IFrameBlock.clean.                                *)

\* The number of scrolling attributes written in markup.
ScrollingAttrs(markup) ==
    Cardinality({k \in 1..(Len(markup) - 1) :
                    markup[k] = " " /\ markup[k + 1] = "scrolling"})

\* The allow-listed attributes among attrs, in order.
AllowListed(attrs) == SelectSeq(attrs, LAMBDA attr : attr.name \in allowed_tags)

\* C30: clean accepts its own output and returns it unchanged; the output
\* carries exactly one scrolling attribute, and its allow-listed attributes
\* are those of the input, in order, with their values.
C30_CleanIdempotent ==
    Returned("clean_stored") =>
        LET once == IFrameBlock_clean(args.value, args.strip)
        IN /\ ret.out.kind = "return"
           /\ ret.out = once
           /\ ScrollingAttrs(once.value) = 1
           /\ AllowListed(find_iframe(once.value).attrs) =
                  AllowListed(find_iframe(args.value).attrs)

====
